---------------------------- MODULE Spec2Model ----------------------------
(***************************************************************************)
(* Model of the realtime conversation and messaging engine of the chat     *)
(* application (the Convex functions under convex/ and the client hooks    *)
(* that call them).                                                        *)
(*                                                                         *)
(* Tables are sequences of rows in insertion order; a row's position       *)
(* stands for its _id in the tables whose rows are never deleted           *)
(* (conversations, conversationMembers, messages).  Id 0 stands for a      *)
(* well-formed id that names no document.  Date.now() is the variable now. *)
(***************************************************************************)
EXTENDS Integers, Sequences, FiniteSets, TLC

VARIABLES
    users,                \* table users: [clerkId, name, email, avatarUrl, isOnline, lastSeen]
    conversations,        \* table conversations: [isGroup, name, createdAt]
    conversationMembers,  \* table conversationMembers: [conversationId, userId, lastReadAt]
    messages,             \* table messages: [conversationId, senderId, body, createdAt, isDeleted]
    reactions,            \* table reactions: [messageId, userId, emoji]
    typingIndicators,     \* table typingIndicators: [conversationId, userId, updatedAt]
    now,                  \* the clock read by Date.now(), in milliseconds
    pending,              \* mutation transactions in flight, per client
    last                  \* the last completed call: its arguments and its outcome

vars == <<users, conversations, conversationMembers, messages, reactions,
          typingIndicators, now, pending, last>>

tables == <<users, conversations, conversationMembers, messages, reactions,
            typingIndicators>>

-----------------------------------------------------------------------------
(* Bounds of the model and the small input sets.                           *)

MaxConversations == 2
MaxMessages == 2
MaxNow == 2
MaxBodyLen == 1
MaxMemberIds == 1
MaxTicks == 3
MaxReactMessages == 1
MaxTypingMessages == 1
MaxCursorMessages == 1
MaxCursorNow == 1
MaxFeedMessages == 2
MaxFeedNow == 1
MaxNameLen == 2
MaxGroups == 2
MaxMissingMessages == 1
MaxToggleMessages == 1
MaxRaceNow == 1
MaxQueuedCalls == 2
MaxSharedGroups == 2
MaxHookPeriods == 5
MaxHookMessages == 1
MaxRetryMessages == 1
MaxProfileNow == 2
MaxReopenNow == 2
MaxReopenMessages == 1

Users == {1, 2, 3}
ChatUsers == {1, 2}
Clients == {1, 2}
Chars == {" ", "a"}

(* A variant of ALLOWED_EMOJIS with a sixth symbol.                        *)
ALLOWED_EMOJIS_AndFire == <<"thumbsup", "heart", "joy", "openmouth", "cry", "fire">>

(* The fixed emoji set, by name: thumbs up, heart, joy, open mouth, cry.   *)
ALLOWED_EMOJIS == <<"thumbsup", "heart", "joy", "openmouth", "cry">>
(* The emojis the model passes to toggleReaction: two of the set and one   *)
(* outside it.                                                             *)
Emojis == {"thumbsup", "heart", "fire"}

ClerkIds == {"clerk_a", "clerk_b"}
ProfileNames == {"Ann", "Anna"}

TYPING_EXPIRY_MS == 2000

-----------------------------------------------------------------------------
(* Helpers on sequences.                                                   *)

Range(s) == {s[i] : i \in DOMAIN s}

RemoveAt(s, i) == SubSeq(s, 1, i - 1) \o SubSeq(s, i + 1, Len(s))

RECURSIVE RemoveAll(_, _)
(* s without the rows at the positions in ixs *)
RemoveAll(s, ixs) ==
    IF ixs = {} THEN s
    ELSE LET i == CHOOSE x \in ixs : \A y \in ixs : y <= x
         IN RemoveAll(RemoveAt(s, i), ixs \ {i})

SeqsUpTo(S, n) == UNION {[1..k -> S] : k \in 0..n}

Bodies == SeqsUpTo(Chars, MaxBodyLen)

MemberIdLists == SeqsUpTo(Users, MaxMemberIds)

(* String.prototype.trim on a body: strips the blanks at both ends.        *)
RECURSIVE TrimLeft(_)
TrimLeft(b) == IF b # <<>> /\ Head(b) = " " THEN TrimLeft(Tail(b)) ELSE b

RECURSIVE TrimRight(_)
TrimRight(b) ==
    IF b # <<>> /\ b[Len(b)] = " " THEN TrimRight(SubSeq(b, 1, Len(b) - 1)) ELSE b

Trim(b) == TrimRight(TrimLeft(b))

-----------------------------------------------------------------------------
(* The record of a completed call.  The bit n alternates from one call to  *)
(* the next, so that a step in which a call completes always changes last. *)

NoCall == [op |-> "none", user |-> 0, other |-> 0, conv |-> 0, msg |-> 0,
           emoji |-> "", body |-> <<>>, ids |-> <<>>, ok |-> TRUE, ret |-> 0, n |-> 0]

Call(op, user, other, conv, msg, emoji, body, ids, ok, ret) ==
    [op |-> op, user |-> user, other |-> other, conv |-> conv, msg |-> msg,
     emoji |-> emoji, body |-> body, ids |-> ids, ok |-> ok, ret |-> ret,
     n |-> 1 - last.n]

(* A call completes in this step.                                          *)
Completed == last'.n # last.n

Idle == [pc |-> "idle", cur |-> 0, other |-> 0, t |-> 0,
         snapConversations |-> <<>>, snapMembers |-> <<>>]

Init ==
    /\ users = <<>>
    /\ conversations = <<>>
    /\ conversationMembers = <<>>
    /\ messages = <<>>
    /\ reactions = <<>>
    /\ typingIndicators = <<>>
    /\ now = 0
    /\ pending = [p \in Clients |-> Idle]
    /\ last = NoCall

-----------------------------------------------------------------------------
(* Index lookups.                                                          *)

(* conversationMembers.withIndex("by_user_conversation") for (u, c): the   *)
(* positions of the matching rows.                                         *)
MemberIxs(mem, u, c) ==
    {i \in DOMAIN mem : mem[i].userId = u /\ mem[i].conversationId = c}

(* conversationMembers.withIndex("by_userId").collect(): the rows of u in  *)
(* index (insertion) order.                                                *)
MembershipsOf(mem, u) == SelectSeq(mem, LAMBDA r : r.userId = u)

(* typingIndicators.withIndex("by_user_conversation") for (u, c).          *)
TypingIxs(u, c) ==
    {i \in DOMAIN typingIndicators :
        typingIndicators[i].userId = u /\ typingIndicators[i].conversationId = c}

(* reactions.withIndex("by_message_user") for (m, u).                      *)
ReactionIxs(m, u) ==
    {i \in DOMAIN reactions : reactions[i].messageId = m /\ reactions[i].userId = u}


-----------------------------------------------------------------------------
(* convex/conversations.ts                                                 *)

NoName == "<absent>"

(* A variant of IsDirectCandidate without the test of isGroup.             *)
IsDirectCandidate_AnyKind(convs, c) == c \in DOMAIN convs

(* The test of the scan loop on one membership: the conversation exists    *)
(* and is not a group (the negation of the loop's "continue").             *)
IsDirectCandidate(convs, c) == c \in DOMAIN convs /\ ~convs[c].isGroup

RECURSIVE ScanFrom(_, _, _, _, _)
(* The loop of getOrCreateDirectConversation over the caller's memberships *)
(* rows[k..]: the first direct conversation in which the other user holds  *)
(* a membership; .unique() throws when it meets two matching rows.  at is  *)
(* the position at which the loop ended.                                   *)
ScanFrom(rows, k, convs, mem, other) ==
    IF k > Len(rows) THEN [kind |-> "none", conv |-> 0, at |-> k]
    ELSE LET c == rows[k].conversationId
             n == Cardinality(MemberIxs(mem, other, c))
         IN  IF ~IsDirectCandidate(convs, c) THEN ScanFrom(rows, k + 1, convs, mem, other)
             ELSE IF n > 1 THEN [kind |-> "throw", conv |-> c, at |-> k]
             ELSE IF n = 1 THEN [kind |-> "found", conv |-> c, at |-> k]
             ELSE ScanFrom(rows, k + 1, convs, mem, other)

(* A variant of ScanDirect that looks the caller, not the other user, up   *)
(* in each conversation.                                                   *)
ScanDirect_SelfLookup(convs, mem, cur, other) ==
    ScanFrom(MembershipsOf(mem, cur), 1, convs, mem, cur)

(* A variant of ScanDirect that finds nothing, as if the handler inserted   *)
(* without looking for an existing conversation.                           *)
ScanDirect_NoneFound(convs, mem, cur, other) ==
    [kind |-> "none", conv |-> 0, at |-> 1]

ScanDirect(convs, mem, cur, other) ==
    ScanFrom(MembershipsOf(mem, cur), 1, convs, mem, other)

(* The rows written when no direct conversation was found.                 *)
NewDirectConversation(t) == [isGroup |-> FALSE, name |-> NoName, createdAt |-> t]

NewDirectMembers(c, cur, other, t) ==
    << [conversationId |-> c, userId |-> cur, lastReadAt |-> t],
       [conversationId |-> c, userId |-> other, lastReadAt |-> t] >>

(* What the handler does given the outcome of its scan, with Date.now() = t. *)
ApplyDirect(scan, cur, other, t) ==
    LET c == Len(conversations) + 1
        done(ok, ret) == Call("getOrCreateDirectConversation", cur, other, 0, 0,
                              "", <<>>, <<>>, ok, ret)
    IN  /\ UNCHANGED <<messages, reactions, typingIndicators>>
        /\ CASE scan.kind = "throw" ->
                  /\ UNCHANGED <<conversations, conversationMembers>>
                  /\ last' = done(FALSE, 0)
             [] scan.kind = "found" ->
                  /\ UNCHANGED <<conversations, conversationMembers>>
                  /\ last' = done(TRUE, scan.conv)
             [] scan.kind = "none" ->
                  /\ conversations' = Append(conversations, NewDirectConversation(t))
                  /\ conversationMembers' =
                        conversationMembers \o NewDirectMembers(c, cur, other, t)
                  /\ last' = done(TRUE, c)

(* getOrCreateDirectConversation run serially, as one transaction.         *)
getOrCreateDirectConversation(cur, other) ==
    /\ ApplyDirect(ScanDirect(conversations, conversationMembers, cur, other),
                   cur, other, now)
    /\ UNCHANGED <<now, pending, users>>

(* What a run of the handler read: the caller's index range by_userId,     *)
(* and the other user's by_user_conversation range of every direct         *)
(* conversation the loop looked at.                                        *)
ReadSet(convs, mem, cur, other) ==
    LET mine == MembershipsOf(mem, cur)
        scan == ScanFrom(mine, 1, convs, mem, other)
        looked == {c \in {mine[k].conversationId : k \in {j \in DOMAIN mine : j <= scan.at}} :
                     IsDirectCandidate(convs, c)}
    IN  [mine |-> mine,
         theirs |-> {<<i, mem[i]>> : i \in {j \in DOMAIN mem :
                        mem[j].userId = other /\ mem[j].conversationId \in looked}}]

(* The transaction's validation at commit: nothing it read was written     *)
(* since its snapshot.                                                     *)
ReadSetUnchanged(p) ==
    ReadSet(pending[p].snapConversations, pending[p].snapMembers,
            pending[p].cur, pending[p].other)
      = ReadSet(conversations, conversationMembers, pending[p].cur, pending[p].other)

Snapshot(cur, other) ==
    [pc |-> "run", cur |-> cur, other |-> other, t |-> now,
     snapConversations |-> conversations, snapMembers |-> conversationMembers]

(* A client's call starts: the handler runs against a snapshot.            *)
DirectBegin(p, cur, other) ==
    /\ pending[p].pc = "idle"
    /\ pending' = [pending EXCEPT ![p] = Snapshot(cur, other)]
    /\ UNCHANGED <<tables, now, last>>

(* The transaction commits what the handler did on its snapshot.           *)
DirectCommit(p) ==
    /\ pending[p].pc = "run"
    /\ ReadSetUnchanged(p)
    /\ ApplyDirect(ScanDirect(pending[p].snapConversations, pending[p].snapMembers,
                              pending[p].cur, pending[p].other),
                   pending[p].cur, pending[p].other, pending[p].t)
    /\ pending' = [pending EXCEPT ![p] = Idle]
    /\ UNCHANGED <<now, users>>

(* A conflicting write was committed first: the handler is run again.      *)
DirectRetry(p) ==
    /\ pending[p].pc = "run"
    /\ ~ReadSetUnchanged(p)
    /\ pending' = [pending EXCEPT ![p] = Snapshot(pending[p].cur, pending[p].other)]
    /\ UNCHANGED <<tables, now, last>>

RECURSIVE GroupMembers(_, _, _)
(* One membership row per element of memberIds, in order.                  *)
GroupMembers(c, memberIds, t) ==
    IF memberIds = <<>> THEN <<>>
    ELSE <<[conversationId |-> c, userId |-> Head(memberIds), lastReadAt |-> t]>>
            \o GroupMembers(c, Tail(memberIds), t)

(* The record of a completed createGroupConversation call.                 *)
GroupCall(name, creatorId, memberIds, ok, ret) ==
    [op |-> "createGroupConversation", user |-> creatorId, other |-> 0, conv |-> 0,
     msg |-> 0, emoji |-> "", body |-> <<>>, ids |-> memberIds, ok |-> ok,
     ret |-> ret, n |-> 1 - last.n, name |-> name]

createGroupConversation(name, creatorId, memberIds) ==
    LET c == Len(conversations) + 1
    IN  /\ conversations' = Append(conversations,
                                   [isGroup |-> TRUE, name |-> name, createdAt |-> now])
        /\ conversationMembers' =
              conversationMembers
                \o <<[conversationId |-> c, userId |-> creatorId, lastReadAt |-> now]>>
                \o GroupMembers(c, memberIds, now)
        /\ last' = GroupCall(name, creatorId, memberIds, TRUE, c)
        /\ UNCHANGED <<messages, reactions, typingIndicators, now, pending, users>>

(* handleCreate of CreateGroupDialog, the client form in front of the     *)
(* mutation: a blank name or an empty selection returns without a call;    *)
(* otherwise the trimmed name and the selection are sent.                  *)
handleCreate(creatorId, groupName, selectedMembers) ==
    /\ ~(Trim(groupName) = <<>> \/ Len(selectedMembers) < 1)
    /\ createGroupConversation(Trim(groupName), creatorId, selectedMembers)

(* A variant of MarkedRead that rewinds the cursor to the conversation's   *)
(* start.                                                                  *)
MarkedRead_Rewind(membership, t) == [membership EXCEPT !.lastReadAt = 0]

(* The patch of markAsRead on the membership row, with Date.now() = t.     *)
MarkedRead(membership, t) == [membership EXCEPT !.lastReadAt = t]

markAsRead(userId, conversationId) ==
    LET ixs == MemberIxs(conversationMembers, userId, conversationId)
        done(ok) == Call("markAsRead", userId, 0, conversationId, 0, "", <<>>, <<>>, ok, 0)
    IN  /\ IF Cardinality(ixs) > 1
           THEN /\ last' = done(FALSE)
                /\ UNCHANGED conversationMembers
           ELSE /\ last' = done(TRUE)
                /\ conversationMembers' =
                      [i \in DOMAIN conversationMembers |->
                          IF i \in ixs
                          THEN MarkedRead(conversationMembers[i], now)
                          ELSE conversationMembers[i]]
        /\ UNCHANGED <<conversations, messages, reactions, typingIndicators, now, pending, users>>

(* A variant of UnreadCount that leaves soft-deleted messages out.         *)
UnreadCount_SkipDeleted(membership, msgs) ==
    Cardinality({i \in DOMAIN msgs :
        /\ msgs[i].conversationId = membership.conversationId
        /\ msgs[i].createdAt > membership.lastReadAt
        /\ msgs[i].senderId # membership.userId
        /\ ~msgs[i].isDeleted})

(* The unread count getUserConversations computes for one membership row.  *)
UnreadCount(membership, msgs) ==
    Cardinality({i \in DOMAIN msgs :
        /\ msgs[i].conversationId = membership.conversationId
        /\ msgs[i].createdAt > membership.lastReadAt
        /\ msgs[i].senderId # membership.userId})

(* messages.withIndex("by_conversation_createdAt") for conversation c:     *)
(* the positions of its messages.                                          *)
MessageIxs(c) == {i \in DOMAIN messages : messages[i].conversationId = c}

(* Message i comes before message j in the index by_conversation_createdAt *)
(* of their conversation: by createdAt, then by creation order.            *)
IndexBefore(i, j) ==
    \/ messages[i].createdAt < messages[j].createdAt
    \/ messages[i].createdAt = messages[j].createdAt /\ i < j

(* .order("desc").first() on that index: the id of the last message of    *)
(* the conversation in index order, or 0 for null.                         *)
LatestMessage(c) ==
    IF MessageIxs(c) = {} THEN 0
    ELSE CHOOSE i \in MessageIxs(c) : \A j \in MessageIxs(c) \ {i} : IndexBefore(j, i)

(* The entries getUserConversations builds, one per membership row of the  *)
(* user whose conversation exists, in index order.                         *)
ConversationEntries(userId) ==
    LET memberships == SelectSeq(MembershipsOf(conversationMembers, userId),
                                 LAMBDA r : r.conversationId \in DOMAIN conversations)
    IN  [k \in DOMAIN memberships |->
            [conversationId |-> memberships[k].conversationId,
             createdAt |-> conversations[memberships[k].conversationId].createdAt,
             latestMessage |-> LatestMessage(memberships[k].conversationId),
             unreadCount |-> UnreadCount(memberships[k], messages)]]

(* a.latestMessage?.createdAt ?? a.createdAt                               *)
SortTime(entry) ==
    IF entry.latestMessage # 0 THEN messages[entry.latestMessage].createdAt
    ELSE entry.createdAt

(* A variant of SortsBefore with the comparator's operands exchanged.      *)
SortsBefore_Ascending(a, b) == SortTime(a) - SortTime(b) < 0

(* The comparator of the sort gives a negative number for (a, b): a is put *)
(* before b.                                                               *)
SortsBefore(a, b) == SortTime(b) - SortTime(a) < 0

(* entry put into the sorted list: before the first element it sorts       *)
(* before, so after the elements it ties with.                             *)
RECURSIVE InsertSorted(_, _)
InsertSorted(entry, sorted) ==
    IF sorted = <<>> THEN <<entry>>
    ELSE IF SortsBefore(entry, Head(sorted)) THEN <<entry>> \o sorted
    ELSE <<Head(sorted)>> \o InsertSorted(entry, Tail(sorted))

(* Array.prototype.sort with the comparator: a stable sort of the first n  *)
(* entries.                                                                *)
RECURSIVE SortEntries(_, _)
SortEntries(entries, n) ==
    IF n = 0 THEN <<>>
    ELSE InsertSorted(entries[n], SortEntries(entries, n - 1))

(* getUserConversations: the entries, newest first.                        *)
getUserConversations(userId) ==
    LET entries == ConversationEntries(userId)
    IN  SortEntries(entries, Len(entries))

-----------------------------------------------------------------------------
(* convex/users.ts                                                         *)

(* users.withIndex("by_clerkId") for clerkId: the positions of the rows.   *)
UserIxs(us, clerkId) == {i \in DOMAIN us : us[i].clerkId = clerkId}

(* A variant of UpsertLookup that never finds the existing row.            *)
UpsertLookup_NeverFound(us, clerkId) == [kind |-> "insert", at |-> 0]

(* The lookup of upsertUser: .unique() throws on two matching rows, gives  *)
(* the row when there is one, and null when there is none.                 *)
UpsertLookup(us, clerkId) ==
    LET ixs == UserIxs(us, clerkId)
    IN  IF Cardinality(ixs) > 1 THEN [kind |-> "throw", at |-> 0]
        ELSE IF ixs # {} THEN [kind |-> "patch", at |-> CHOOSE i \in ixs : TRUE]
        ELSE [kind |-> "insert", at |-> 0]

(* The record of a completed upsertUser call.                              *)
UpsertCall(clerkId, name, email, avatarUrl, ok, ret) ==
    [op |-> "upsertUser", user |-> 0, other |-> 0, conv |-> 0, msg |-> 0,
     emoji |-> "", body |-> <<>>, ids |-> <<>>, ok |-> ok, ret |-> ret,
     n |-> 1 - last.n,
     clerkId |-> clerkId, name |-> name, email |-> email, avatarUrl |-> avatarUrl]

(* A variant of PatchedUser that also resets the presence fields.          *)
PatchedUser_Reset(user, name, email, avatarUrl) ==
    [user EXCEPT !.name = name, !.email = email, !.avatarUrl = avatarUrl,
                 !.isOnline = FALSE]

(* The patch of upsertUser on the existing row.                            *)
PatchedUser(user, name, email, avatarUrl) ==
    [user EXCEPT !.name = name, !.email = email, !.avatarUrl = avatarUrl]

(* What the handler of upsertUser does given the outcome of its lookup,    *)
(* with Date.now() = t.                                                    *)
ApplyUpsert(found, clerkId, name, email, avatarUrl, t) ==
    /\ UNCHANGED <<conversations, conversationMembers, messages, reactions,
                   typingIndicators>>
    /\ CASE found.kind = "throw" ->
              /\ UNCHANGED users
              /\ last' = UpsertCall(clerkId, name, email, avatarUrl, FALSE, 0)
         [] found.kind = "patch" ->
              /\ users' = [users EXCEPT ![found.at] =
                              PatchedUser(@, name, email, avatarUrl)]
              /\ last' = UpsertCall(clerkId, name, email, avatarUrl, TRUE, found.at)
         [] found.kind = "insert" ->
              /\ users' = Append(users,
                              [clerkId |-> clerkId, name |-> name, email |-> email,
                               avatarUrl |-> avatarUrl, isOnline |-> FALSE,
                               lastSeen |-> t])
              /\ last' = UpsertCall(clerkId, name, email, avatarUrl, TRUE,
                                    Len(users) + 1)

(* upsertUser run serially, as one transaction.                            *)
upsertUser(clerkId, name, email, avatarUrl) ==
    /\ ApplyUpsert(UpsertLookup(users, clerkId), clerkId, name, email, avatarUrl, now)
    /\ UNCHANGED <<now, pending>>

(* What a run of the handler read: the by_clerkId range of its clerkId.    *)
UpsertReadSet(us, clerkId) == {<<i, us[i]>> : i \in UserIxs(us, clerkId)}

(* The transaction's validation at commit: nothing it read was written     *)
(* since its snapshot.                                                     *)
UpsertReadSetUnchanged(p) ==
    UpsertReadSet(pending[p].snapUsers, pending[p].clerkId)
        = UpsertReadSet(users, pending[p].clerkId)

UpsertSnapshot(clerkId, name, email, avatarUrl) ==
    [pc |-> "upsert", clerkId |-> clerkId, name |-> name, email |-> email,
     avatarUrl |-> avatarUrl, t |-> now, snapUsers |-> users]

(* A caller's upsertUser starts: the handler runs against a snapshot.      *)
UpsertBegin(p, clerkId, name, email, avatarUrl) ==
    /\ pending[p].pc = "idle"
    /\ pending' = [pending EXCEPT ![p] = UpsertSnapshot(clerkId, name, email, avatarUrl)]
    /\ UNCHANGED <<tables, now, last>>

(* The transaction commits what the handler did on its snapshot.           *)
UpsertCommit(p) ==
    /\ pending[p].pc = "upsert"
    /\ UpsertReadSetUnchanged(p)
    /\ ApplyUpsert(UpsertLookup(pending[p].snapUsers, pending[p].clerkId),
                   pending[p].clerkId, pending[p].name, pending[p].email,
                   pending[p].avatarUrl, pending[p].t)
    /\ pending' = [pending EXCEPT ![p] = Idle]
    /\ UNCHANGED now

(* A conflicting write was committed first: the handler is run again.      *)
UpsertRetry(p) ==
    /\ pending[p].pc = "upsert"
    /\ ~UpsertReadSetUnchanged(p)
    /\ pending' = [pending EXCEPT ![p] =
                      UpsertSnapshot(pending[p].clerkId, pending[p].name,
                                     pending[p].email, pending[p].avatarUrl)]
    /\ UNCHANGED <<tables, now, last>>

(* The record of a completed updateOnlineStatus call.                      *)
OnlineCall(userId, isOnline, ok) ==
    [op |-> "updateOnlineStatus", user |-> userId, other |-> 0, conv |-> 0, msg |-> 0,
     emoji |-> "", body |-> <<>>, ids |-> <<>>, ok |-> ok, ret |-> 0,
     n |-> 1 - last.n, isOnline |-> isOnline]

(* updateOnlineStatus: the patch of the user row; db.patch throws when the *)
(* id names no document.                                                   *)
updateOnlineStatus(userId, isOnline) ==
    /\ IF userId \notin DOMAIN users
       THEN /\ last' = OnlineCall(userId, isOnline, FALSE)
            /\ UNCHANGED users
       ELSE /\ users' = [users EXCEPT ![userId] =
                            [@ EXCEPT !.isOnline = isOnline, !.lastSeen = now]]
            /\ last' = OnlineCall(userId, isOnline, TRUE)
    /\ UNCHANGED <<conversations, conversationMembers, messages, reactions,
                   typingIndicators, now>>

-----------------------------------------------------------------------------
(* hooks/useOnlineStatus: one session (a tab with the app open) per        *)
(* client.  A session holds the user it runs for, whether its document is  *)
(* visible, hidden or gone, and the updateOnlineStatus calls it has issued *)
(* that the server has not applied yet, oldest first.                      *)

Session(userId, view, calls) ==
    [pc |-> "session", user |-> userId, view |-> view, calls |-> calls]

(* The session of client p is mounted.                                     *)
Mounted(p) == pending[p].pc = "session" /\ pending[p].view # "closed"

(* updateStatus({ userId, isOnline }) in the session of client p, whose    *)
(* document is in state view afterwards.                                   *)
updateStatus(p, view, isOnline) ==
    /\ Len(pending[p].calls) < MaxQueuedCalls
    /\ pending' = [pending EXCEPT ![p] =
                      Session(pending[p].user, view, Append(pending[p].calls, isOnline))]
    /\ UNCHANGED <<tables, now, last>>

(* The effect runs on mount: the session is online.                        *)
Mount(p, userId) ==
    /\ pending[p].pc = "idle"
    /\ userId \in DOMAIN users
    /\ pending' = [pending EXCEPT ![p] = Session(userId, "visible", <<TRUE>>)]
    /\ UNCHANGED <<tables, now, last>>

(* handleVisibilityChange: the tab is hidden or shown again.               *)
handleVisibilityChange(p) ==
    /\ Mounted(p)
    /\ LET view == IF pending[p].view = "visible" THEN "hidden" ELSE "visible"
       IN  updateStatus(p, view, view = "visible")

(* handleBeforeUnload: the tab or the browser is closed.                   *)
handleBeforeUnload(p) ==
    /\ Mounted(p)
    /\ updateStatus(p, "closed", FALSE)

(* The effect's cleanup: the component unmounts.                           *)
Unmount(p) ==
    /\ Mounted(p)
    /\ updateStatus(p, "closed", FALSE)

(* The app is opened again in the tab of client p.                         *)
Remount(p) ==
    /\ pending[p].pc = "session"
    /\ pending[p].view = "closed"
    /\ updateStatus(p, "visible", TRUE)

(* The server applies the oldest call of client p that it has not applied  *)
(* yet: the calls of one client are applied in the order it issued them.   *)
DeliverStatus(p) ==
    /\ pending[p].pc = "session"
    /\ pending[p].calls # <<>>
    /\ updateOnlineStatus(pending[p].user, Head(pending[p].calls))
    /\ pending' = [pending EXCEPT ![p] =
                      Session(pending[p].user, pending[p].view, Tail(pending[p].calls))]

-----------------------------------------------------------------------------
(* convex/messages.ts                                                      *)

(* A variant of WithoutSenderTyping that deletes nothing.                  *)
WithoutSenderTyping_Keep(ixs) == typingIndicators

(* The side effect of sendMessage: the sender's typing indicator in the    *)
(* conversation, if there is one, is deleted.                              *)
WithoutSenderTyping(ixs) == RemoveAll(typingIndicators, ixs)

(* What the handler of sendMessage does to the tables, and the call it     *)
(* completes.                                                              *)
ApplySend(conversationId, senderId, body) ==
    LET ixs == TypingIxs(senderId, conversationId)
        m == Len(messages) + 1
        done(ok, ret) == Call("sendMessage", senderId, 0, conversationId, 0, "", body,
                              <<>>, ok, ret)
    IN  /\ IF Cardinality(ixs) > 1
           THEN /\ last' = done(FALSE, 0)
                /\ UNCHANGED <<messages, typingIndicators>>
           ELSE /\ messages' = Append(messages,
                      [conversationId |-> conversationId, senderId |-> senderId,
                       body |-> body, createdAt |-> now, isDeleted |-> FALSE])
                /\ typingIndicators' = WithoutSenderTyping(ixs)
                /\ last' = done(TRUE, m)
        /\ UNCHANGED <<conversations, conversationMembers, reactions, users>>

sendMessage(conversationId, senderId, body) ==
    /\ ApplySend(conversationId, senderId, body)
    /\ UNCHANGED <<now, pending>>

(* A variant of MayDelete without the ownership test.                      *)
MayDelete_Anyone(message, userId) == TRUE

(* The ownership test of deleteMessage.                                    *)
MayDelete(message, userId) == message.senderId = userId

(* A variant of SoftDeleted that flips the flag.                           *)
SoftDeleted_Flip(message) == [message EXCEPT !.isDeleted = ~message.isDeleted]

(* The patch of deleteMessage.                                             *)
SoftDeleted(message) == [message EXCEPT !.isDeleted = TRUE]

deleteMessage(messageId, userId) ==
    LET done(ok) == Call("deleteMessage", userId, 0, 0, messageId, "", <<>>, <<>>, ok, 0)
    IN  /\ IF messageId \notin DOMAIN messages
           THEN /\ last' = done(FALSE)
                /\ UNCHANGED messages
           ELSE IF ~MayDelete(messages[messageId], userId)
           THEN /\ last' = done(FALSE)
                /\ UNCHANGED messages
           ELSE /\ messages' = [messages EXCEPT ![messageId] = SoftDeleted(@)]
                /\ last' = done(TRUE)
        /\ UNCHANGED <<conversations, conversationMembers, reactions, typingIndicators,
                       now, pending, users>>

(* A variant of FeedBefore that puts the newest message first.             *)
FeedBefore_NewestFirst(i, j) == IndexBefore(j, i)

(* The order("asc") of getMessages on the index by_conversation_createdAt. *)
FeedBefore(i, j) == IndexBefore(i, j)

(* The message ids ixs in the order of the query.                          *)
RECURSIVE InFeedOrder(_)
InFeedOrder(ixs) ==
    IF ixs = {} THEN <<>>
    ELSE LET first == CHOOSE i \in ixs : \A j \in ixs \ {i} : FeedBefore(i, j)
         IN  <<first>> \o InFeedOrder(ixs \ {first})

(* getMessages: the conversation's messages in index order, each with its  *)
(* id, its fields as stored and its reactions.                             *)
getMessages(conversationId) ==
    LET order == InFeedOrder(MessageIxs(conversationId))
    IN  [k \in DOMAIN order |->
            [id |-> order[k],
             conversationId |-> messages[order[k]].conversationId,
             senderId |-> messages[order[k]].senderId,
             body |-> messages[order[k]].body,
             createdAt |-> messages[order[k]].createdAt,
             isDeleted |-> messages[order[k]].isDeleted,
             reactions |-> SelectSeq(reactions, LAMBDA r : r.messageId = order[k])]]

(* The text MessageItem shows for a soft-deleted message.                  *)
DeletedPlaceholder == <<"This message was deleted">>

(* A variant of MessageItem that shows the body of every message.          *)
MessageItem_ShowBody(message) == message.body

(* The content of the bubble MessageItem renders for a message of the      *)
(* feed.                                                                   *)
MessageItem(message) ==
    IF message.isDeleted THEN DeletedPlaceholder ELSE message.body

(* useMessages.sendMessage, the client hook in front of the mutation: a    *)
(* blank body returns without a call; otherwise the trimmed body is sent.  *)
useMessagesSendMessage(conversationId, userId, body) ==
    /\ Trim(body) # <<>>
    /\ sendMessage(conversationId, userId, Trim(body))

-----------------------------------------------------------------------------
(* The reaction engine (toggleReaction and ALLOWED_EMOJIS).                *)

(* A variant of ReplaceReaction that, when it has deleted a reaction, does *)
(* not insert the new one.                                                 *)
ReplaceReaction_DeleteOnly(existing, reaction) ==
    IF existing = {} THEN Append(reactions, reaction)
    ELSE RemoveAll(reactions, existing)

(* A variant of ReplaceReaction that inserts without deleting.             *)
ReplaceReaction_Stack(existing, reaction) == Append(reactions, reaction)

(* The replacement branch: every existing reaction of the user on the      *)
(* message is deleted, then the new one is inserted.                       *)
ReplaceReaction(existing, reaction) == Append(RemoveAll(reactions, existing), reaction)

(* A variant of ToggledOff that removes nothing.                           *)
ToggledOff_Keep(same) == reactions

(* The reaction toggleReaction removes when the user clicks the emoji of   *)
(* a reaction the user already has: the first such row.                    *)
ToggledOff(same) == RemoveAt(reactions, CHOOSE i \in same : \A j \in same : i <= j)

(* What the handler of toggleReaction does given the rows its query read   *)
(* (existingReactions), and the call it completes: the rows it deletes are *)
(* among those it read.                                                    *)
ApplyToggle(existingReactions, messageId, userId, emoji) ==
    LET existing == {i \in ReactionIxs(messageId, userId) :
                        reactions[i] \in Range(existingReactions)}
        same == {i \in existing : reactions[i].emoji = emoji}
        done(ok) == Call("toggleReaction", userId, 0, 0, messageId, emoji, <<>>, <<>>, ok, 0)
    IN  /\ IF emoji \notin Range(ALLOWED_EMOJIS)
           THEN /\ last' = done(FALSE)
                /\ UNCHANGED reactions
           ELSE IF same # {}
           THEN /\ reactions' = ToggledOff(same)
                /\ last' = done(TRUE)
           ELSE /\ reactions' = ReplaceReaction(existing,
                      [messageId |-> messageId, userId |-> userId, emoji |-> emoji])
                /\ last' = done(TRUE)
        /\ UNCHANGED <<conversations, conversationMembers, messages, typingIndicators,
                       users>>

(* The by_message_user range of a message and a user in the table rs, in   *)
(* index order: what the handler's query reads.                            *)
ToggleReadSet(rs, messageId, userId) ==
    SelectSeq(rs, LAMBDA r : r.messageId = messageId /\ r.userId = userId)

(* toggleReaction run serially, as one transaction.                        *)
toggleReaction(messageId, userId, emoji) ==
    /\ ApplyToggle(ToggleReadSet(reactions, messageId, userId), messageId, userId, emoji)
    /\ UNCHANGED <<now, pending>>

(* The transaction's validation at commit: nothing it read was written     *)
(* since its snapshot.                                                     *)
ToggleReadSetUnchanged(p) ==
    ToggleReadSet(pending[p].snapReactions, pending[p].msg, pending[p].user)
        = ToggleReadSet(reactions, pending[p].msg, pending[p].user)

ToggleSnapshot(messageId, userId, emoji) ==
    [pc |-> "toggle", msg |-> messageId, user |-> userId, emoji |-> emoji,
     snapReactions |-> reactions]

(* A client's toggleReaction starts: the handler runs against a snapshot.  *)
ToggleBegin(p, messageId, userId, emoji) ==
    /\ pending[p].pc = "idle"
    /\ pending' = [pending EXCEPT ![p] = ToggleSnapshot(messageId, userId, emoji)]
    /\ UNCHANGED <<tables, now, last>>

(* The transaction commits what the handler did on its snapshot: its       *)
(* deletes and its insert become visible together.                         *)
ToggleCommit(p) ==
    /\ pending[p].pc = "toggle"
    /\ ToggleReadSetUnchanged(p)
    /\ ApplyToggle(ToggleReadSet(pending[p].snapReactions, pending[p].msg,
                                 pending[p].user),
                   pending[p].msg, pending[p].user, pending[p].emoji)
    /\ pending' = [pending EXCEPT ![p] = Idle]
    /\ UNCHANGED now

(* A conflicting write was committed first: the handler is run again.      *)
ToggleRetry(p) ==
    /\ pending[p].pc = "toggle"
    /\ ~ToggleReadSetUnchanged(p)
    /\ pending' = [pending EXCEPT ![p] =
                      ToggleSnapshot(pending[p].msg, pending[p].user, pending[p].emoji)]
    /\ UNCHANGED <<tables, now, last>>

-----------------------------------------------------------------------------
(* convex/typing.ts                                                        *)

(* typingIndicators.withIndex("by_user_conversation") for (u, c) in the    *)
(* table rows, in index order: what the handler's query reads.             *)
TypingReadSet(rows, conversationId, userId) ==
    SelectSeq(rows, LAMBDA r : r.userId = userId /\ r.conversationId = conversationId)

(* A variant of TypingLookup that never finds the existing row.            *)
TypingLookup_NeverFound(existing) == "insert"

(* The lookup of setTyping on the rows it read: .unique() throws on two    *)
(* rows, gives the row when there is one, and null when there is none.     *)
TypingLookup(existing) ==
    IF Len(existing) > 1 THEN "throw"
    ELSE IF existing # <<>> THEN "patch"
    ELSE "insert"

(* What the handler of setTyping does given the rows its query read, with  *)
(* Date.now() = t, and the call it completes.                              *)
ApplySetTyping(existing, conversationId, userId, t) ==
    LET ixs == {i \in TypingIxs(userId, conversationId) :
                   typingIndicators[i] \in Range(existing)}
        done(ok) == Call("setTyping", userId, 0, conversationId, 0, "", <<>>, <<>>, ok, 0)
    IN  /\ CASE TypingLookup(existing) = "throw" ->
                  /\ last' = done(FALSE)
                  /\ UNCHANGED typingIndicators
             [] TypingLookup(existing) = "patch" ->
                  /\ typingIndicators' =
                        [i \in DOMAIN typingIndicators |->
                            IF i \in ixs
                            THEN [typingIndicators[i] EXCEPT !.updatedAt = t]
                            ELSE typingIndicators[i]]
                  /\ last' = done(TRUE)
             [] TypingLookup(existing) = "insert" ->
                  /\ typingIndicators' = Append(typingIndicators,
                        [conversationId |-> conversationId, userId |-> userId,
                         updatedAt |-> t])
                  /\ last' = done(TRUE)
        /\ UNCHANGED <<conversations, conversationMembers, messages, reactions, users>>

(* setTyping run serially, as one transaction.                             *)
setTyping(conversationId, userId) ==
    /\ ApplySetTyping(TypingReadSet(typingIndicators, conversationId, userId),
                      conversationId, userId, now)
    /\ UNCHANGED <<now, pending>>

(* The transaction's validation at commit: nothing it read was written     *)
(* since its snapshot.                                                     *)
TypingReadSetUnchanged(p) ==
    TypingReadSet(pending[p].snapTyping, pending[p].conv, pending[p].user)
        = TypingReadSet(typingIndicators, pending[p].conv, pending[p].user)

TypingSnapshot(conversationId, userId) ==
    [pc |-> "typing", conv |-> conversationId, user |-> userId, t |-> now,
     snapTyping |-> typingIndicators]

(* A client's setTyping starts: the handler runs against a snapshot.       *)
TypingBegin(p, conversationId, userId) ==
    /\ pending[p].pc = "idle"
    /\ pending' = [pending EXCEPT ![p] = TypingSnapshot(conversationId, userId)]
    /\ UNCHANGED <<tables, now, last>>

(* The transaction commits what the handler did on its snapshot.           *)
TypingCommit(p) ==
    /\ pending[p].pc = "typing"
    /\ TypingReadSetUnchanged(p)
    /\ ApplySetTyping(TypingReadSet(pending[p].snapTyping, pending[p].conv,
                                    pending[p].user),
                      pending[p].conv, pending[p].user, pending[p].t)
    /\ pending' = [pending EXCEPT ![p] = Idle]
    /\ UNCHANGED now

(* A conflicting write was committed first: the handler is run again.      *)
TypingRetry(p) ==
    /\ pending[p].pc = "typing"
    /\ ~TypingReadSetUnchanged(p)
    /\ pending' = [pending EXCEPT ![p] = TypingSnapshot(pending[p].conv, pending[p].user)]
    /\ UNCHANGED <<tables, now, last>>

(* What the handler of clearTyping does to the tables, and the call it     *)
(* completes.                                                              *)
ApplyClearTyping(conversationId, userId) ==
    LET ixs == TypingIxs(userId, conversationId)
        done(ok) == Call("clearTyping", userId, 0, conversationId, 0, "", <<>>, <<>>, ok, 0)
    IN  /\ IF Cardinality(ixs) > 1
           THEN /\ last' = done(FALSE)
                /\ UNCHANGED typingIndicators
           ELSE /\ typingIndicators' = RemoveAll(typingIndicators, ixs)
                /\ last' = done(TRUE)
        /\ UNCHANGED <<conversations, conversationMembers, messages, reactions, users>>

clearTyping(conversationId, userId) ==
    /\ ApplyClearTyping(conversationId, userId)
    /\ UNCHANGED <<now, pending>>

(* A variant of IsActive whose comparison admits the threshold itself.     *)
IsActive_Inclusive(indicator, t) == t - indicator.updatedAt <= TYPING_EXPIRY_MS

(* The expiry filter of getTypingUsers on one row, read at time t.         *)
IsActive(indicator, t) == t - indicator.updatedAt < TYPING_EXPIRY_MS

(* getTypingUsers: the users of the conversation's indicator rows that     *)
(* pass the filter, in index order (the handler then maps each to its      *)
(* display name).                                                          *)
getTypingUsers(conversationId, currentUserId) ==
    LET indicators == SelectSeq(typingIndicators,
                                LAMBDA r : r.conversationId = conversationId)
        active == SelectSeq(indicators,
                            LAMBDA r : r.userId # currentUserId /\ IsActive(r, now))
    IN  [i \in DOMAIN active |-> active[i].userId]

-----------------------------------------------------------------------------
(* hooks/useTyping: the typing hook of one chat area, and                  *)
(* ChatArea.handleSendMessage, which calls it.  The hook holds its two     *)
(* refs; typingTimeoutRef is the time at which the pending timer is due,   *)
(* or NoTimer.  keyAt, setAt, cleared and clearBy record what the hook     *)
(* did: the time of the last handleTyping call, the time of the last       *)
(* setTyping it issued, whether it issued a clearTyping since the last     *)
(* handleTyping call, and what issued the last clearTyping.                *)

TYPING_DEBOUNCE_MS == 500

NoTimer == -1

Never == -1

(* Date.now() in the browser: milliseconds since the epoch, of which the   *)
(* model's clock counts those since it started; the epoch lies more than   *)
(* the debounce delay before that.                                         *)
ClientNow == now + 2 * TYPING_DEBOUNCE_MS

Hook(conversationId, userId) ==
    [pc |-> "hook", conv |-> conversationId, user |-> userId,
     lastTypingRef |-> 0, typingTimeoutRef |-> NoTimer,
     keyAt |-> Never, setAt |-> Never, cleared |-> FALSE, clearBy |-> "none"]

(* The chat area of a conversation is opened: the hook is mounted.         *)
OpenChatArea(p, conversationId, userId) ==
    /\ pending[p].pc = "idle"
    /\ conversationId \in DOMAIN conversations
    /\ pending' = [pending EXCEPT ![p] = Hook(conversationId, userId)]
    /\ UNCHANGED <<tables, now, last>>

(* A variant of TypingDue without the debounce.                            *)
TypingDue_Always(t, lastTyping) == TRUE

(* The debounce test of handleTyping at client time t.                     *)
TypingDue(t, lastTyping) == t - lastTyping > TYPING_DEBOUNCE_MS

(* handleTyping, called on a keystroke: setTyping when the debounce test   *)
(* passes; the timer is cleared and set again.                             *)
handleTyping(p) ==
    /\ pending[p].pc = "hook"
    /\ IF TypingDue(ClientNow, pending[p].lastTypingRef)
       THEN /\ ApplySetTyping(TypingReadSet(typingIndicators, pending[p].conv,
                                            pending[p].user),
                              pending[p].conv, pending[p].user, now)
            /\ pending' = [pending EXCEPT ![p] =
                              [@ EXCEPT !.lastTypingRef = ClientNow,
                                        !.typingTimeoutRef = now + TYPING_EXPIRY_MS,
                                        !.keyAt = now, !.setAt = now,
                                        !.cleared = FALSE]]
       ELSE /\ pending' = [pending EXCEPT ![p] =
                              [@ EXCEPT !.typingTimeoutRef = now + TYPING_EXPIRY_MS,
                                        !.keyAt = now, !.cleared = FALSE]]
            /\ UNCHANGED <<tables, last>>
    /\ UNCHANGED now

(* The timer set by handleTyping fires: clearTyping.                       *)
TypingTimeout(p) ==
    /\ pending[p].pc = "hook"
    /\ pending[p].typingTimeoutRef # NoTimer
    /\ now >= pending[p].typingTimeoutRef
    /\ ApplyClearTyping(pending[p].conv, pending[p].user)
    /\ pending' = [pending EXCEPT ![p] =
                      [@ EXCEPT !.typingTimeoutRef = NoTimer, !.cleared = TRUE,
                                !.clearBy = "timer"]]
    /\ UNCHANGED now

(* stopTyping, the first statement of handleSendMessage: the timer is      *)
(* cleared and clearTyping is called.                                      *)
stopTyping(p) ==
    /\ pending[p].pc = "hook"
    /\ ApplyClearTyping(pending[p].conv, pending[p].user)
    /\ pending' = [pending EXCEPT ![p] =
                      [@ EXCEPT !.pc = "sending", !.typingTimeoutRef = NoTimer,
                                !.cleared = TRUE, !.clearBy = "stop"]]
    /\ UNCHANGED now

(* The second statement of handleSendMessage: sendMessage(body) of         *)
(* useMessages, which sends the trimmed body unless it is blank.           *)
handleSendMessage(p, body) ==
    /\ pending[p].pc = "sending"
    /\ IF Trim(body) # <<>>
       THEN ApplySend(pending[p].conv, pending[p].user, Trim(body))
       ELSE UNCHANGED <<tables, last>>
    /\ pending' = [pending EXCEPT ![p] = [@ EXCEPT !.pc = "hook"]]
    /\ UNCHANGED now

(* No pending timer of a hook is due before time t.                        *)
NoTimerBefore(t) ==
    \A p \in Clients :
        (pending[p].pc \in {"hook", "sending"} /\ pending[p].typingTimeoutRef # NoTimer)
            => t <= pending[p].typingTimeoutRef

-----------------------------------------------------------------------------
(* components/messages/MessageInput with useMessages.sendMessage and       *)
(* ChatArea.handleSendMessage behind it: the input of one chat area.  The  *)
(* record holds the component's state (message, lastFailedMessage), the    *)
(* hook's state (sendError as a flag, isSending), the body of the attempt  *)
(* in flight and the handler that made it; failed records the body of the  *)
(* last attempt if it failed, and is empty otherwise.                      *)

Input(conversationId, userId) ==
    [pc |-> "input", conv |-> conversationId, user |-> userId,
     message |-> <<>>, lastFailedMessage |-> <<>>,
     sendError |-> FALSE, isSending |-> FALSE,
     body |-> <<>>, via |-> "none", failed |-> <<>>]

(* The chat area is opened: the input is mounted.                          *)
OpenInput(p, conversationId, userId) ==
    /\ pending[p].pc = "idle"
    /\ conversationId \in DOMAIN conversations
    /\ pending' = [pending EXCEPT ![p] = Input(conversationId, userId)]
    /\ UNCHANGED <<tables, now, last>>

(* handleChange: the user edits the text (the typing hook it notifies is   *)
(* modelled apart).                                                        *)
handleChange(p, value) ==
    /\ pending[p].pc \in {"input", "awaiting"}
    /\ pending[p].message # value
    /\ pending' = [pending EXCEPT ![p] = [@ EXCEPT !.message = value]]
    /\ UNCHANGED <<tables, now, last>>

(* onSendMessage(body) up to its await: handleSendMessage stops typing     *)
(* (clearTyping), and useMessages.sendMessage sets isSending, clears the   *)
(* error and calls the mutation with the trimmed body; for a blank body it *)
(* returns at once, which its caller takes for a success.                  *)
Submit(p, via, body, state) ==
    /\ ApplyClearTyping(pending[p].conv, pending[p].user)
    /\ IF Trim(body) = <<>>
       THEN pending' = [pending EXCEPT ![p] =
                           [state EXCEPT !.lastFailedMessage = <<>>, !.via = via]]
       ELSE pending' = [pending EXCEPT ![p] =
                           [state EXCEPT !.pc = "awaiting", !.isSending = TRUE,
                                         !.sendError = FALSE, !.body = Trim(body),
                                         !.via = via]]
    /\ UNCHANGED now

(* handleSend: Enter or the send button.                                   *)
handleSend(p) ==
    LET trimmed == Trim(pending[p].message)
    IN  /\ pending[p].pc = "input"
        /\ ~(trimmed = <<>> \/ pending[p].isSending)
        /\ Submit(p, "handleSend", trimmed,
                  [pending[p] EXCEPT !.lastFailedMessage = trimmed, !.message = <<>>,
                                     !.sendError = FALSE])

(* A variant of RetryBody that takes the text of the input.                *)
RetryBody_Input(state) == Trim(state.message)

(* The body handleRetry submits.                                           *)
RetryBody(state) == state.lastFailedMessage

(* handleRetry: the Retry button of the error banner, which is rendered    *)
(* while sendError is set.                                                 *)
handleRetry(p) ==
    /\ pending[p].pc = "input"
    /\ pending[p].sendError
    /\ pending[p].lastFailedMessage # <<>>
    /\ Submit(p, "handleRetry", RetryBody(pending[p]),
              [pending[p] EXCEPT !.message = <<>>, !.sendError = FALSE])

(* The mutation of the attempt in flight succeeds: the message is stored   *)
(* and the remembered body is cleared.                                     *)
SendSucceeds(p) ==
    /\ pending[p].pc = "awaiting"
    /\ ApplySend(pending[p].conv, pending[p].user, pending[p].body)
    /\ last'.ok
    /\ pending' = [pending EXCEPT ![p] =
                      [@ EXCEPT !.pc = "input", !.isSending = FALSE,
                                !.lastFailedMessage = <<>>, !.body = <<>>,
                                !.failed = <<>>]]
    /\ UNCHANGED now

(* The mutation of the attempt in flight fails (the handler throws or the  *)
(* call is rejected): nothing is stored, the error is set and the body is  *)
(* put back into the input.                                                *)
SendFails(p) ==
    /\ pending[p].pc = "awaiting"
    /\ last' = Call("sendMessage", pending[p].user, 0, pending[p].conv, 0, "",
                    pending[p].body, <<>>, FALSE, 0)
    /\ pending' = [pending EXCEPT ![p] =
                      [@ EXCEPT !.pc = "input", !.isSending = FALSE,
                                !.sendError = TRUE,
                                !.message = IF pending[p].via = "handleSend"
                                            THEN pending[p].body
                                            ELSE pending[p].lastFailedMessage,
                                !.body = <<>>, !.failed = pending[p].body]]
    /\ UNCHANGED <<tables, now>>

-----------------------------------------------------------------------------
(* The clock.                                                              *)

Tick(d) ==
    /\ now' = now + d
    /\ UNCHANGED <<tables, pending, last>>

-----------------------------------------------------------------------------
(* Specification of the conversation manager: direct conversations opened  *)
(* by concurrent clients, group creation, read cursors.                    *)

Running == {p \in Clients : pending[p].pc = "run"}

(* Room for one more conversation, counting the calls in flight.           *)
RoomForConversation == Len(conversations) + Cardinality(Running) < MaxConversations

NextDirect ==
    \/ \E p \in Clients, cur \in Users, other \in Users :
          RoomForConversation /\ DirectBegin(p, cur, other)
    \/ \E p \in Clients : DirectCommit(p)
    \/ \E p \in Clients : DirectRetry(p)
    \/ \E creatorId \in Users, memberIds \in MemberIdLists :
          RoomForConversation /\ createGroupConversation("team", creatorId, memberIds)

SpecDirect == Init /\ [][NextDirect]_vars

-----------------------------------------------------------------------------
(* The calls of one pair of users, one at a time: the conversation they    *)
(* open, and the ids of the documents that exist.                          *)

OpenDirect ==
    \E cur \in ChatUsers :
        \E other \in ChatUsers \ {cur} : getOrCreateDirectConversation(cur, other)

ConvIds == 1..Len(conversations)

MessageIds == 1..Len(messages)

-----------------------------------------------------------------------------
(* Specification of the read cursor: messages sent, conversations marked   *)
(* read, and the clock.                                                    *)

NextUnread ==
    \/ OpenDirect
    \/ \E c \in ConvIds, senderId \in ChatUsers :
          Len(messages) < MaxMessages /\ sendMessage(c, senderId, <<"a">>)
    \/ \E userId \in ChatUsers, c \in ConvIds : markAsRead(userId, c)
    \/ now < MaxNow /\ Tick(1)

SpecUnread == Init /\ [][NextUnread]_vars

-----------------------------------------------------------------------------
(* Specification of the message log: messages sent, soft deletes by the    *)
(* sender and by others, reactions of the other user.                      *)

NextDelete ==
    \/ OpenDirect
    \/ \E c \in ConvIds, senderId \in ChatUsers :
          Len(messages) < MaxMessages /\ sendMessage(c, senderId, <<"a">>)
    \/ \E m \in 0..Len(messages), userId \in ChatUsers : deleteMessage(m, userId)
    \/ \E m \in MessageIds : toggleReaction(m, 2, "heart")

SpecDelete == Init /\ [][NextDelete]_vars

-----------------------------------------------------------------------------
(* Specification of sending: bodies of every shape, through the mutation   *)
(* and through the client hook.                                            *)

NextSend ==
    \/ OpenDirect
    \/ \E c \in ConvIds, senderId \in ChatUsers, body \in Bodies :
          Len(messages) < MaxMessages /\ sendMessage(c, senderId, body)
    \/ \E c \in ConvIds, userId \in ChatUsers, body \in Bodies :
          Len(messages) < MaxMessages /\ useMessagesSendMessage(c, userId, body)

SpecSend == Init /\ [][NextSend]_vars

-----------------------------------------------------------------------------
(* Specification of the reaction engine.                                   *)

NextReact ==
    \/ OpenDirect
    \/ \E c \in ConvIds, senderId \in ChatUsers :
          Len(messages) < MaxReactMessages /\ sendMessage(c, senderId, <<"a">>)
    \/ \E m \in MessageIds, userId \in ChatUsers, emoji \in Emojis :
          toggleReaction(m, userId, emoji)

SpecReact == Init /\ [][NextReact]_vars

-----------------------------------------------------------------------------
(* Specification of the typing indicator: the clock advances by one        *)
(* millisecond or by one millisecond less than the expiry threshold.       *)

TickSteps == {1, TYPING_EXPIRY_MS - 1}

(* The number of clock steps taken to reach time t.                        *)
TicksTaken(t) == (t \div (TYPING_EXPIRY_MS - 1)) + (t % (TYPING_EXPIRY_MS - 1))

NextTyping ==
    \/ OpenDirect
    \/ \E c \in ConvIds, userId \in ChatUsers : setTyping(c, userId)
    \/ \E c \in ConvIds, userId \in ChatUsers : clearTyping(c, userId)
    \/ \E c \in ConvIds, senderId \in ChatUsers :
          Len(messages) < MaxTypingMessages /\ sendMessage(c, senderId, <<"a">>)
    \/ \E d \in TickSteps : TicksTaken(now) < MaxTicks /\ Tick(d)

SpecTyping == Init /\ [][NextTyping]_vars

-----------------------------------------------------------------------------
(* Specification of sending while typing, in the conversation and under an *)
(* id that names no conversation.                                          *)

NextSendTyping ==
    \/ OpenDirect
    \/ \E c \in 0..Len(conversations), userId \in ChatUsers : setTyping(c, userId)
    \/ \E c \in 0..Len(conversations), userId \in ChatUsers : clearTyping(c, userId)
    \/ \E c \in 0..Len(conversations), senderId \in ChatUsers :
          Len(messages) < MaxMessages /\ sendMessage(c, senderId, <<"a">>)

SpecSendTyping == Init /\ [][NextSendTyping]_vars

-----------------------------------------------------------------------------
(* Specification of the read cursor among every other operation: the      *)
(* pair's direct conversation, alone or opened after a group created on    *)
(* the empty store, messages sent and deleted, reactions, typing and the   *)
(* clock.  Both users mark conversation 1 as read; the memberships of the  *)
(* other conversation are the rows a mark must leave alone.                *)

NextCursor ==
    \/ getOrCreateDirectConversation(2, 1)
    \/ conversations = <<>> /\ createGroupConversation("team", 1, <<2>>)
    \/ /\ 1 \in ConvIds
       /\ Len(messages) < MaxCursorMessages
       /\ sendMessage(1, 2, <<"a">>)
    \/ \E m \in MessageIds, userId \in ChatUsers : deleteMessage(m, userId)
    \/ 1 \in MessageIds /\ toggleReaction(1, 2, "heart")
    \/ setTyping(1, 1)
    \/ clearTyping(1, 1)
    \/ \E userId \in ChatUsers : 1 \in ConvIds /\ markAsRead(userId, 1)
    \/ now < MaxCursorNow /\ Tick(1)

SpecCursor == Init /\ [][NextCursor]_vars

-----------------------------------------------------------------------------
(* Specification of the user registry: the client-side sync (caller 1)     *)
(* and the auth webhook (caller 2) upsert the same accounts concurrently.  *)

NextUsers ==
    \/ \E p \in Clients, clerkId \in ClerkIds, name \in ProfileNames :
          UpsertBegin(p, clerkId, name, "mail", "pic")
    \/ \E p \in Clients : UpsertCommit(p)
    \/ \E p \in Clients : UpsertRetry(p)

SpecUsers == Init /\ [][NextUsers]_vars

-----------------------------------------------------------------------------
(* Specification of the message feed: the pair's direct conversation,      *)
(* alone or opened after a group created on the empty store, messages sent *)
(* into either by either user at equal and at different times, and soft    *)
(* deletes.                                                                *)

NextFeed ==
    \/ getOrCreateDirectConversation(2, 1)
    \/ conversations = <<>> /\ createGroupConversation("team", 1, <<2>>)
    \/ \E c \in ConvIds, senderId \in ChatUsers :
          Len(messages) < MaxFeedMessages /\ sendMessage(c, senderId, <<"a">>)
    \/ \E m \in MessageIds, userId \in ChatUsers : deleteMessage(m, userId)
    \/ now < MaxFeedNow /\ Tick(1)

SpecFeed == Init /\ [][NextFeed]_vars

-----------------------------------------------------------------------------
(* Specification of the conversation list: the pair's direct conversation  *)
(* and groups created by user 1 with any member list, messages sent and    *)
(* soft-deleted, and the clock.                                            *)

NextInbox ==
    \/ getOrCreateDirectConversation(2, 1)
    \/ \E memberIds \in MemberIdLists :
          RoomForConversation /\ createGroupConversation("team", 1, memberIds)
    \/ \E c \in ConvIds, senderId \in ChatUsers :
          Len(messages) < MaxMessages /\ sendMessage(c, senderId, <<"a">>)
    \/ \E m \in MessageIds, userId \in ChatUsers : deleteMessage(m, userId)
    \/ now < MaxNow /\ Tick(1)

SpecInbox == Init /\ [][NextInbox]_vars

-----------------------------------------------------------------------------
(* Specification of group creation: names of every shape, through the      *)
(* mutation and through the client form.                                   *)

GroupNames == SeqsUpTo(Chars, MaxNameLen)

(* The member lists user 1 passes: none, or user 2.                        *)
GroupMemberChoices == {<<>>, <<2>>}

NextGroup ==
    \/ \E name \in GroupNames, memberIds \in GroupMemberChoices :
          Len(conversations) < MaxGroups /\ createGroupConversation(name, 1, memberIds)
    \/ \E groupName \in GroupNames, selectedMembers \in GroupMemberChoices :
          Len(conversations) < MaxGroups /\ handleCreate(1, groupName, selectedMembers)

SpecGroup == Init /\ [][NextGroup]_vars

-----------------------------------------------------------------------------
(* Specification of calls on missing targets: the pair's direct            *)
(* conversation, and every mutation called with the ids that exist and     *)
(* with id 0, which names no document; user 3 is a member of nothing.      *)

NextMissing ==
    \/ OpenDirect
    \/ \E c \in 0..Len(conversations), senderId \in ChatUsers :
          Len(messages) < MaxMissingMessages /\ sendMessage(c, senderId, <<"a">>)
    \/ \E m \in 0..Len(messages), userId \in ChatUsers : deleteMessage(m, userId)
    \/ \E m \in 0..Len(messages), userId \in ChatUsers : toggleReaction(m, userId, "heart")
    \/ \E userId \in Users, c \in 0..Len(conversations) : markAsRead(userId, c)

SpecMissing == Init /\ [][NextMissing]_vars

-----------------------------------------------------------------------------
(* Specification of concurrent reactions: two clients toggle reactions on  *)
(* the first message of the pair's conversation, for either user, while    *)
(* the feed is read.                                                       *)

ToggleEmojis == {"thumbsup", "heart"}

NextToggle ==
    \/ getOrCreateDirectConversation(2, 1)
    \/ /\ 1 \in ConvIds
       /\ Len(messages) < MaxToggleMessages
       /\ sendMessage(1, 1, <<"a">>)
    \/ \E p \in Clients, userId \in ChatUsers, emoji \in ToggleEmojis :
          1 \in MessageIds /\ ToggleBegin(p, 1, userId, emoji)
    \/ \E p \in Clients : ToggleCommit(p)
    \/ \E p \in Clients : ToggleRetry(p)

SpecToggle == Init /\ [][NextToggle]_vars

-----------------------------------------------------------------------------
(* Specification of concurrent typing: two clients (two tabs of user 1)    *)
(* call setTyping in the pair's conversation while user 2 types too,       *)
(* indicators are cleared, user 1 sends the conversation's first message   *)
(* and the clock advances.                                                 *)

NextTypingRace ==
    \/ getOrCreateDirectConversation(2, 1)
    \/ \E p \in Clients : 1 \in ConvIds /\ TypingBegin(p, 1, 1)
    \/ 1 \in ConvIds /\ setTyping(1, 2)
    \/ \E p \in Clients : TypingCommit(p)
    \/ \E p \in Clients : TypingRetry(p)
    \/ \E userId \in ChatUsers : 1 \in ConvIds /\ clearTyping(1, userId)
    \/ 1 \in ConvIds /\ messages = <<>> /\ sendMessage(1, 1, <<"a">>)
    \/ now < MaxRaceNow /\ Tick(1)

SpecTypingRace == Init /\ [][NextTypingRace]_vars

-----------------------------------------------------------------------------
(* Specification of the online status: the account of user 1 is created,   *)
(* and two sessions of user 1 are mounted, hidden, shown, unloaded and     *)
(* unmounted in any order while the server applies their calls.            *)

NextOnline ==
    \/ users = <<>> /\ pending[1].pc = "idle"
          /\ UpsertBegin(1, "clerk_a", "Ann", "mail", "pic")
    \/ UpsertCommit(1)
    \/ \E p \in Clients : Mount(p, 1)
    \/ \E p \in Clients : handleVisibilityChange(p)
    \/ \E p \in Clients : handleBeforeUnload(p)
    \/ \E p \in Clients : Unmount(p)
    \/ \E p \in Clients : Remount(p)
    \/ \E p \in Clients : DeliverStatus(p)

SpecOnline == Init /\ [][NextOnline]_vars

-----------------------------------------------------------------------------
(* Specification of direct conversations among groups: user 1 creates      *)
(* groups, alone or with user 2, before and after the pair opens its       *)
(* direct conversation from either side.                                   *)

NextShared ==
    \/ OpenDirect
    \/ \E memberIds \in GroupMemberChoices :
          /\ Cardinality({c \in ConvIds : conversations[c].isGroup}) < MaxSharedGroups
          /\ createGroupConversation("team", 1, memberIds)

SpecShared == Init /\ [][NextShared]_vars

-----------------------------------------------------------------------------
(* Specification of the typing hook: user 1 opens the chat area of the     *)
(* pair's conversation, presses keys and sends messages at instants that   *)
(* lie on and just after the multiples of the debounce delay; a timer      *)
(* fires when it is due.                                                   *)

HookInstants ==
    {k * TYPING_DEBOUNCE_MS + d : k \in 0..MaxHookPeriods, d \in {0, 1}}

NextHook ==
    \/ getOrCreateDirectConversation(2, 1)
    \/ OpenChatArea(1, 1, 1)
    \/ handleTyping(1)
    \/ TypingTimeout(1)
    \/ Len(messages) < MaxHookMessages /\ stopTyping(1)
    \/ handleSendMessage(1, <<"a">>)
    \/ \E t \in HookInstants : t > now /\ NoTimerBefore(t) /\ Tick(t - now)

SpecHook == Init /\ [][NextHook]_vars

-----------------------------------------------------------------------------
(* Specification of sending with retry: user 1 opens the chat area of the  *)
(* pair's conversation, edits the text, sends and retries; each attempt    *)
(* succeeds or fails.                                                      *)

InputTexts == {<<>>, <<"a">>, <<" ", "b">>}

NextRetry ==
    \/ getOrCreateDirectConversation(2, 1)
    \/ OpenInput(1, 1, 1)
    \/ \E value \in InputTexts : handleChange(1, value)
    \/ handleSend(1)
    \/ handleRetry(1)
    \/ Len(messages) < MaxRetryMessages /\ SendSucceeds(1)
    \/ SendFails(1)

SpecRetry == Init /\ [][NextRetry]_vars

-----------------------------------------------------------------------------
(* Specification of the user profile: accounts are upserted again and      *)
(* again, with the same and with another name, while their users go online *)
(* and offline and the clock advances.                                     *)

NextProfile ==
    \/ \E clerkId \in ClerkIds, name \in ProfileNames :
          upsertUser(clerkId, name, "mail", "pic")
    \/ \E userId \in DOMAIN users, isOnline \in BOOLEAN :
          updateOnlineStatus(userId, isOnline) /\ UNCHANGED pending
    \/ now < MaxProfileNow /\ Tick(1)

SpecProfile == Init /\ [][NextProfile]_vars

-----------------------------------------------------------------------------
(* Specification of reopening a direct conversation: the pair opens its    *)
(* direct conversation from either side, before or after a group created   *)
(* on the empty store, while user 1 sends, user 2 marks conversations as   *)
(* read and the clock advances.                                            *)

NextReopen ==
    \/ OpenDirect
    \/ conversations = <<>> /\ createGroupConversation("team", 1, <<2>>)
    \/ \E c \in ConvIds :
          Len(messages) < MaxReopenMessages /\ sendMessage(c, 1, <<"a">>)
    \/ \E c \in ConvIds : markAsRead(2, c)
    \/ now < MaxReopenNow /\ Tick(1)

SpecReopen == Init /\ [][NextReopen]_vars

-----------------------------------------------------------------------------
(* Properties of the conversation manager.                                 *)

(* The non-group conversations in which both a and b hold a membership.    *)
DirectConvsIn(convs, mem, a, b) ==
    {c \in DOMAIN convs :
        /\ ~convs[c].isGroup
        /\ MemberIxs(mem, a, c) # {}
        /\ MemberIxs(mem, b, c) # {}}

DirectConvs(a, b) == DirectConvsIn(conversations, conversationMembers, a, b)

MemberRows(c) == {i \in DOMAIN conversationMembers : conversationMembers[i].conversationId = c}

(* At most one direct conversation per pair of distinct users, and it has  *)
(* exactly two memberships, one for each of the two.                       *)
OneDirectPerPair ==
    \A a \in Users : \A b \in Users \ {a} :
        /\ Cardinality(DirectConvs(a, b)) <= 1
        /\ \A c \in DirectConvs(a, b) :
              /\ Cardinality(MemberRows(c)) = 2
              /\ Cardinality(MemberIxs(conversationMembers, a, c)) = 1
              /\ Cardinality(MemberIxs(conversationMembers, b, c)) = 1

(* A call for two distinct users succeeds and returns the pair's one       *)
(* direct conversation.                                                    *)
DirectReturnsThePair ==
    (Completed /\ last'.op = "getOrCreateDirectConversation" /\ last'.user # last'.other)
        => /\ last'.ok
           /\ DirectConvsIn(conversations', conversationMembers',
                            last'.user, last'.other) = {last'.ret}

(* The pair's direct conversation, once there, stays the same.             *)
DirectStays ==
    \A a \in Users : \A b \in Users \ {a} :
        DirectConvs(a, b) # {} => DirectConvs(a, b)' = DirectConvs(a, b)

(* C1: for two distinct users A and B, getOrCreateDirect(A,B) and          *)
(* getOrCreateDirect(B,A), called any number of times by concurrent        *)
(* clients in any interleaving (two scans may both run before either       *)
(* inserts), all return the same conversation id, and exactly one          *)
(* non-group conversation, with exactly two memberships (one for A, one    *)
(* for B), exists for the pair.                                            *)
C1_DirectDedup ==
    /\ []OneDirectPerPair
    /\ [][DirectReturnsThePair /\ DirectStays]_vars

(* A call whose scan ran when the pair had no conversation is still in     *)
(* flight while the pair's conversation, inserted by the other client,     *)
(* exists.                                                                 *)
C1_Witness ==
    \E p \in Clients :
        /\ pending[p].pc = "run"
        /\ pending[p].cur # pending[p].other
        /\ ScanDirect(pending[p].snapConversations, pending[p].snapMembers,
                      pending[p].cur, pending[p].other).kind = "none"
        /\ last.op = "getOrCreateDirectConversation"
        /\ last.user = pending[p].other
        /\ last.other = pending[p].cur
        /\ DirectConvs(pending[p].cur, pending[p].other) = {last.ret}

(* C10: there is at most one membership per (conversationId, userId) pair, *)
(* whatever the arguments of createGroup (duplicate ids in memberIds, the  *)
(* creator among memberIds) and of getOrCreateDirect (userA = userB).      *)
C10_UniqueMembership ==
    \A i \in DOMAIN conversationMembers, j \in DOMAIN conversationMembers :
        ( /\ conversationMembers[i].conversationId = conversationMembers[j].conversationId
          /\ conversationMembers[i].userId = conversationMembers[j].userId ) => i = j

-----------------------------------------------------------------------------
(* Properties of the reaction engine.                                      *)

(* The emojis of the reactions of user u on message m, in the table rs.    *)
EmojisOf(rs, m, u) ==
    LET rows == SelectSeq(rs, LAMBDA r : r.messageId = m /\ r.userId = u)
    IN  [i \in DOMAIN rows |-> rows[i].emoji]

(* C2: after any sequence of toggle calls by any users on any messages,    *)
(* there is at most one reaction row per (messageId, userId) pair.         *)
C2_OneReactionPerUser ==
    \A m \in MessageIds, u \in ChatUsers : Cardinality(ReactionIxs(m, u)) <= 1

(* A toggle has just replaced or added a reaction while the other user     *)
(* also has one on the same message.                                       *)
C2_Witness ==
    /\ last.op = "toggleReaction"
    /\ last.ok
    /\ Len(EmojisOf(reactions, last.msg, last.user)) = 1
    /\ \E u \in ChatUsers \ {last.user} : Len(EmojisOf(reactions, last.msg, u)) = 1

(* The step is a successful toggleReaction call.                           *)
Toggled == Completed /\ last'.op = "toggleReaction" /\ last'.ok

(* C3: for a message m, a user u and allowed emojis X # Y: from a state    *)
(* where u has no reaction on m, toggle(m,u,X) leaves the one reaction X;  *)
(* from there toggle(m,u,X) leaves no reaction of u on m, and              *)
(* toggle(m,u,Y) leaves exactly one reaction of u on m, with emoji Y.      *)
C3_ToggleTwice ==
    [][Toggled =>
         LET before == EmojisOf(reactions, last'.msg, last'.user)
             after == EmojisOf(reactions', last'.msg, last'.user)
         IN  /\ before = <<>> => after = <<last'.emoji>>
             /\ before = <<last'.emoji>> => after = <<>>
             /\ \A X \in Range(ALLOWED_EMOJIS) \ {last'.emoji} :
                   before = <<X>> => after = <<last'.emoji>>]_vars

(* A successful toggle has just left the user without a reaction on the    *)
(* message: it removed the reaction the user had, of the same emoji.       *)
C3_Witness ==
    /\ last.op = "toggleReaction"
    /\ last.ok
    /\ last.emoji = "thumbsup"
    /\ EmojisOf(reactions, last.msg, last.user) = <<>>
    /\ reactions # <<>>

-----------------------------------------------------------------------------
(* Properties of the read cursor.                                          *)

IsMember(mem, u, c) == MemberIxs(mem, u, c) # {}

(* The unread counts getUserConversations(u) reports for conversation c,   *)
(* given the tables mem and msgs: one per entry of the conversation.       *)
UnreadReported(mem, msgs, u, c) ==
    {UnreadCount(mem[i], msgs) : i \in MemberIxs(mem, u, c)}

(* markRead(U,C) by a member has just completed: the count is 0.           *)
ZeroAfterMarkRead ==
    ( /\ Completed
      /\ last'.op = "markAsRead"
      /\ last'.ok
      /\ IsMember(conversationMembers', last'.user, last'.conv) )
        => UnreadReported(conversationMembers', messages', last'.user, last'.conv) = {0}

(* The call after markRead(U,C) is a send into C by another member: the    *)
(* count is 1.                                                             *)
OneAfterSendByOther ==
    ( /\ last.op = "markAsRead"
      /\ last.ok
      /\ IsMember(conversationMembers, last.user, last.conv)
      /\ Completed
      /\ last'.op = "sendMessage"
      /\ last'.ok
      /\ last'.conv = last.conv
      /\ last'.user # last.user
      /\ IsMember(conversationMembers, last'.user, last'.conv) )
        => UnreadReported(conversationMembers', messages', last.user, last.conv) = {1}

(* A send by U leaves U's own count as it was.                             *)
OwnSendNotCounted ==
    ( /\ Completed
      /\ last'.op = "sendMessage"
      /\ IsMember(conversationMembers, last'.user, last'.conv) )
        => UnreadReported(conversationMembers', messages', last'.user, last'.conv)
             = UnreadReported(conversationMembers, messages, last'.user, last'.conv)

(* C4: for a member U of conversation C, right after markRead(U,C) the     *)
(* unread count listForUser(U) reports for C is 0; if another member then  *)
(* sends one message into C it is 1; a message sent by U never increments  *)
(* U's own count.                                                          *)
C4_UnreadAfterMarkRead ==
    [][ZeroAfterMarkRead /\ OneAfterSendByOther /\ OwnSendNotCounted]_vars

-----------------------------------------------------------------------------
(* Properties of the message log.                                          *)

(* The step is deleteMessage on an existing message by a user who is not   *)
(* its sender.                                                             *)
DeleteByNonSender ==
    /\ Completed
    /\ last'.op = "deleteMessage"
    /\ last'.msg \in DOMAIN messages
    /\ messages[last'.msg].senderId # last'.user

(* C5: softDelete(messageId, requesterId) by a user who is not the         *)
(* message's sender fails with an error; isDeleted stays as it was (false  *)
(* for a message not yet deleted) and no table changes.                    *)
C5_DeleteByNonSenderFails ==
    [][DeleteByNonSender => (~last'.ok /\ UNCHANGED tables)]_vars

(* A non-sender's delete of a live message has just failed.                *)
C5_Witness ==
    /\ last.op = "deleteMessage"
    /\ ~last.ok
    /\ last.msg \in DOMAIN messages
    /\ messages[last.msg].senderId # last.user
    /\ ~messages[last.msg].isDeleted

(* C6: messages are append-only: a message is never removed or rewritten,  *)
(* and once isDeleted is true it stays true through every later call (a    *)
(* repeated softDelete included).                                          *)
C6_AppendOnly ==
    [][/\ Len(messages') >= Len(messages)
       /\ \A i \in DOMAIN messages :
             /\ messages'[i].conversationId = messages[i].conversationId
             /\ messages'[i].senderId = messages[i].senderId
             /\ messages'[i].body = messages[i].body
             /\ messages'[i].createdAt = messages[i].createdAt
             /\ messages[i].isDeleted => messages'[i].isDeleted]_vars

(* The sender's softDelete has just succeeded on a message that carries a  *)
(* reaction, and an older message is deleted too.                          *)
C6_Witness ==
    /\ last.op = "deleteMessage"
    /\ last.ok
    /\ messages[last.msg].isDeleted
    /\ \E i \in DOMAIN reactions : reactions[i].messageId = last.msg
    /\ \E j \in DOMAIN messages : j # last.msg /\ messages[j].isDeleted

(* C7: send with an empty or whitespace-only body is rejected with an      *)
(* error and appends no message; no stored message has an empty or         *)
(* whitespace-only body.                                                   *)
C7_BlankBodyRejected ==
    /\ \A i \in DOMAIN messages : Trim(messages[i].body) # <<>>
    /\ (last.op = "sendMessage" /\ Trim(last.body) = <<>>) => ~last.ok

-----------------------------------------------------------------------------
(* Properties of the typing indicator.                                     *)

(* C8: after setTyping(C,U) at time t0, with no later setTyping,           *)
(* clearTyping or send by U in C (the row of (C,U) is stored with          *)
(* updatedAt = t0), U is in listActiveTypers(C, other) for every call made *)
(* strictly before t0 + 2000 ms and in none made at or after t0 + 2000 ms. *)
C8_TypingExpiry ==
    \A i \in DOMAIN typingIndicators :
        \A other \in ChatUsers \ {typingIndicators[i].userId} :
            (typingIndicators[i].userId
                \in Range(getTypingUsers(typingIndicators[i].conversationId, other)))
              <=> (now < typingIndicators[i].updatedAt + 2000)

(* Exactly 2000 ms after the last setTyping the row is still stored and    *)
(* its user is not listed for the other user.                              *)
C8_Witness ==
    \E i \in DOMAIN typingIndicators :
        /\ last.op = "setTyping"
        /\ last.user = typingIndicators[i].userId
        /\ last.conv = typingIndicators[i].conversationId
        /\ now = typingIndicators[i].updatedAt + 2000
        /\ \E other \in ChatUsers \ {typingIndicators[i].userId} :
              getTypingUsers(typingIndicators[i].conversationId, other) = <<>>

(* The typing rows other than those of user u in conversation c.           *)
OtherTyping(rows, c, u) ==
    SelectSeq(rows, LAMBDA r : ~(r.conversationId = c /\ r.userId = u))

(* A successful send(C,S,body) leaves no typing row of (C,S) and leaves    *)
(* every other typing row as it was.                                       *)
SendClearsTyping ==
    (Completed /\ last'.op = "sendMessage" /\ last'.ok)
        => /\ \A i \in DOMAIN typingIndicators' :
                 ~( /\ typingIndicators'[i].conversationId = last'.conv
                    /\ typingIndicators'[i].userId = last'.user )
           /\ OtherTyping(typingIndicators', last'.conv, last'.user)
                = OtherTyping(typingIndicators, last'.conv, last'.user)

(* A typing row of (C,S) appears only by setTyping(C,S).                   *)
TypingOnlyBySetTyping ==
    \A c \in 0..Len(conversations), u \in ChatUsers :
        (TypingIxs(u, c) = {} /\ OtherTyping(typingIndicators', c, u) # typingIndicators')
            => (Completed /\ last'.op = "setTyping" /\ last'.user = u /\ last'.conv = c)

(* C9: after a successful send(C,S,body) no typing row exists for (C,S),   *)
(* and none appears until S calls setTyping again; the typing rows of      *)
(* other users and of S in other conversations are left unchanged.         *)
C9_SendStopsTyping == [][SendClearsTyping /\ TypingOnlyBySetTyping]_vars

(* A send has just succeeded while the sender is typing under another id   *)
(* and the other user is typing in the same conversation.                  *)
C9_Witness ==
    /\ last.op = "sendMessage"
    /\ last.ok
    /\ TypingIxs(last.user, last.conv) = {}
    /\ \E c \in (0..Len(conversations)) \ {last.conv} : TypingIxs(last.user, c) # {}
    /\ \E u \in ChatUsers \ {last.user} : TypingIxs(u, last.conv) # {}

-----------------------------------------------------------------------------
(* Properties of the membership table.                                     *)

(* C11: every conversation has at least two memberships, whatever the      *)
(* arguments of createGroup (an empty memberIds list included) and of      *)
(* getOrCreateDirect.                                                      *)
C11_AtLeastTwoMembers ==
    \A c \in DOMAIN conversations : Cardinality(MemberRows(c)) >= 2

(* What a step does to the membership row at position i: the row keeps    *)
(* its place, its conversation and its user; its lastReadAt does not       *)
(* decrease; and it changes only in a markRead(U,C) of the row's own user  *)
(* and conversation.                                                       *)
CursorStep(i) ==
    /\ i \in DOMAIN conversationMembers'
    /\ conversationMembers'[i].conversationId = conversationMembers[i].conversationId
    /\ conversationMembers'[i].userId = conversationMembers[i].userId
    /\ conversationMembers'[i].lastReadAt >= conversationMembers[i].lastReadAt
    /\ conversationMembers'[i].lastReadAt # conversationMembers[i].lastReadAt
          => /\ Completed
             /\ last'.op = "markAsRead"
             /\ last'.user = conversationMembers[i].userId
             /\ last'.conv = conversationMembers[i].conversationId

(* C12: for every membership (C,U), lastReadAt never decreases, and only   *)
(* markRead(U,C) by that user changes it: markRead by another user, send,  *)
(* softDelete, toggle, typing and conversation creation leave it as it     *)
(* was.                                                                    *)
C12_CursorMonotone ==
    [][\A i \in DOMAIN conversationMembers : CursorStep(i)]_vars

(* markRead(U,C) has just advanced the cursor of (C,U) past its value at   *)
(* creation while the other member's cursor in C is still behind it.       *)
C12_Witness ==
    /\ last.op = "markAsRead"
    /\ last.ok
    /\ \E i \in MemberIxs(conversationMembers, last.user, last.conv) :
          /\ conversationMembers[i].lastReadAt = now
          /\ conversationMembers[i].lastReadAt > conversations[last.conv].createdAt
          /\ \E j \in MemberRows(last.conv) :
                conversationMembers[j].lastReadAt < conversationMembers[i].lastReadAt

-----------------------------------------------------------------------------
(* Properties of the user registry.                                        *)

(* At most one user row per externalAuthId.                                *)
OneUserPerClerkId ==
    \A clerkId \in ClerkIds : Cardinality(UserIxs(users, clerkId)) <= 1

(* A completed upsertUser succeeds and returns the id of the one row of    *)
(* its externalAuthId.                                                     *)
UpsertReturnsTheUser ==
    (Completed /\ last'.op = "upsertUser")
        => /\ last'.ok
           /\ UserIxs(users', last'.clerkId) = {last'.ret}

(* A user row keeps its id and its externalAuthId.                         *)
UsersStay ==
    \A i \in DOMAIN users :
        i \in DOMAIN users' /\ users'[i].clerkId = users[i].clerkId

(* C13: after any sequence and interleaving of upsertUser calls (the       *)
(* client-side sync and the auth webhook upserting the same                *)
(* externalAuthId concurrently), exactly one user row exists per           *)
(* externalAuthId ever upserted, and every upsertUser call for it returns  *)
(* the same user id.                                                       *)
C13_OneUserPerExternalId ==
    /\ []OneUserPerClerkId
    /\ [][UpsertReturnsTheUser /\ UsersStay]_vars

(* An upsert whose lookup ran when the account had no row is still in      *)
(* flight while the row, inserted by the other caller, exists.             *)
C13_Witness ==
    \E p \in Clients :
        /\ pending[p].pc = "upsert"
        /\ UserIxs(pending[p].snapUsers, pending[p].clerkId) = {}
        /\ last.op = "upsertUser"
        /\ last.clerkId = pending[p].clerkId
        /\ UserIxs(users, pending[p].clerkId) = {last.ret}

-----------------------------------------------------------------------------
(* Properties of the emoji validation.                                     *)

(* The five symbols a reaction may carry.                                  *)
FixedEmojiSet == {"thumbsup", "heart", "joy", "openmouth", "cry"}

(* A toggle with an emoji outside the set fails and changes no table.      *)
InvalidEmojiFails ==
    (Completed /\ last'.op = "toggleReaction" /\ last'.emoji \notin FixedEmojiSet)
        => (~last'.ok /\ UNCHANGED tables)

(* C14: toggle(messageId, userId, emoji) with an emoji outside the fixed   *)
(* five-symbol set fails with an error and leaves the reaction table       *)
(* unchanged; every stored reaction's emoji is a member of the set.        *)
C14_InvalidEmojiRejected ==
    /\ [](\A i \in DOMAIN reactions : reactions[i].emoji \in FixedEmojiSet)
    /\ [][InvalidEmojiFails]_vars

(* A toggle with an emoji outside the set has just failed on a message     *)
(* that carries reactions.                                                 *)
C14_Witness ==
    /\ last.op = "toggleReaction"
    /\ last.emoji \notin FixedEmojiSet
    /\ ~last.ok
    /\ \E i \in DOMAIN reactions : reactions[i].messageId = last.msg

-----------------------------------------------------------------------------
(* Properties of the conversation list.                                    *)

(* The number of messages of the log msgs that are in conversation c,      *)
(* were created after time t and were not sent by user u, whether          *)
(* soft-deleted or not.                                                    *)
RECURSIVE UnreadFor(_, _, _, _)
UnreadFor(msgs, c, u, t) ==
    IF msgs = <<>> THEN 0
    ELSE (IF /\ Head(msgs).conversationId = c
             /\ Head(msgs).createdAt > t
             /\ Head(msgs).senderId # u
          THEN 1 ELSE 0) + UnreadFor(Tail(msgs), c, u, t)

(* C15: for every user U and every conversation C that U is a member of,   *)
(* the unreadCount that listForUser(U) returns for C is the number of      *)
(* messages in C with createdAt > lastReadAt of membership (C,U) and       *)
(* senderId # U, soft-deleted messages counted like any other.             *)
C15_UnreadCountFormula ==
    \A u \in ChatUsers :
        \A i \in DOMAIN conversationMembers :
            conversationMembers[i].userId = u
              => LET c == conversationMembers[i].conversationId
                     listed == getUserConversations(u)
                 IN  /\ \E k \in DOMAIN listed : listed[k].conversationId = c
                     /\ \A k \in DOMAIN listed :
                           listed[k].conversationId = c
                             => listed[k].unreadCount
                                  = UnreadFor(messages, c, u,
                                              conversationMembers[i].lastReadAt)

(* A member's count is 1 for a conversation whose one unread message, sent *)
(* by the other member after the member's cursor, is soft-deleted.         *)
C15_Witness ==
    \E m \in DOMAIN messages :
        /\ messages[m].isDeleted
        /\ \E i \in DOMAIN conversationMembers :
              /\ conversationMembers[i].conversationId = messages[m].conversationId
              /\ conversationMembers[i].userId # messages[m].senderId
              /\ conversationMembers[i].lastReadAt < messages[m].createdAt
              /\ \E k \in DOMAIN getUserConversations(conversationMembers[i].userId) :
                    /\ getUserConversations(conversationMembers[i].userId)[k].conversationId
                         = messages[m].conversationId
                    /\ getUserConversations(conversationMembers[i].userId)[k].unreadCount = 1

(* The single timestamp of conversation c: the createdAt of its latest     *)
(* message if it has a message, else its own createdAt.                    *)
ListTime(c) ==
    IF \E m \in DOMAIN messages : messages[m].conversationId = c
    THEN CHOOSE t \in {messages[m].createdAt :
                          m \in {n \in DOMAIN messages : messages[n].conversationId = c}} :
            \A m \in DOMAIN messages :
                messages[m].conversationId = c => messages[m].createdAt <= t
    ELSE conversations[c].createdAt

(* The list of user u is in descending order of ListTime.                  *)
ListSortedNewestFirst(u) ==
    LET listed == getUserConversations(u)
    IN  \A k \in DOMAIN listed : \A l \in DOMAIN listed :
           k < l => ListTime(listed[k].conversationId)
                       >= ListTime(listed[l].conversationId)

(* The list of user u holds each conversation u is a member of exactly     *)
(* once, and no other.                                                     *)
ListedExactlyOnce(u) ==
    LET listed == getUserConversations(u)
    IN  \A c \in DOMAIN conversations :
           Cardinality({k \in DOMAIN listed : listed[k].conversationId = c})
             = (IF IsMember(conversationMembers, u, c) THEN 1 ELSE 0)

(* C17: listForUser(U) returns U's conversations in descending order of    *)
(* one timestamp per conversation (the createdAt of its latest message if  *)
(* it has any, else the conversation's createdAt), and each conversation   *)
(* U is a member of appears exactly once.                                  *)
C17_ListSortedOncePerConversation ==
    \A u \in ChatUsers : ListSortedNewestFirst(u) /\ ListedExactlyOnce(u)

(* The most recent message of conversation c that is not soft-deleted, by  *)
(* createdAt and then by insertion; 0 when there is none.                  *)
LatestLiveMessage(c) ==
    LET live == {m \in DOMAIN messages :
                    messages[m].conversationId = c /\ ~messages[m].isDeleted}
    IN  IF live = {} THEN 0
        ELSE CHOOSE m \in live :
                \A n \in live \ {m} :
                    \/ messages[n].createdAt < messages[m].createdAt
                    \/ messages[n].createdAt = messages[m].createdAt /\ n < m

(* C18: the preview message listForUser returns for a conversation is its  *)
(* most recent message that is not soft-deleted, by createdAt descending;  *)
(* it is absent only when the conversation has no such message.            *)
C18_PreviewIsLatestLive ==
    \A u \in ChatUsers :
        \A k \in DOMAIN getUserConversations(u) :
            getUserConversations(u)[k].latestMessage
                = LatestLiveMessage(getUserConversations(u)[k].conversationId)

(* C20: createGroup with an empty or whitespace-only name is rejected      *)
(* with a validation error and creates no conversation and no membership;  *)
(* every stored group conversation has a trimmed, non-empty name.          *)
C20_BlankGroupNameRejected ==
    /\ \A c \in DOMAIN conversations :
          conversations[c].isGroup
            => /\ conversations[c].name # <<>>
               /\ Trim(conversations[c].name) = conversations[c].name
    /\ (last.op = "createGroupConversation" /\ Trim(last.name) = <<>>) => ~last.ok

-----------------------------------------------------------------------------
(* Properties of the message feed.                                         *)

(* The placeholder shown in place of a withdrawn message.                  *)
FixedPlaceholder == <<"This message was deleted">>

(* Message m is listed for its conversation as deleted, and what is shown  *)
(* for it is the placeholder, not its body.                                *)
ShownAsDeleted(m) ==
    LET feed == getMessages(messages[m].conversationId)
    IN  \E k \in DOMAIN feed :
           /\ feed[k].id = m
           /\ feed[k].isDeleted
           /\ MessageItem(feed[k]) = FixedPlaceholder
           /\ MessageItem(feed[k]) # messages[m].body

FeedPosition(feed, m) == CHOOSE k \in DOMAIN feed : feed[k].id = m

(* C19: listForConversation(C) returns exactly the messages whose          *)
(* conversationId is C, soft-deleted ones included, in ascending createdAt *)
(* order with equal timestamps kept in insertion order: a message sent     *)
(* after another in the same conversation never appears before it.         *)
C19_FeedOrder ==
    \A c \in DOMAIN conversations :
        LET feed == getMessages(c)
        IN  /\ {feed[k].id : k \in DOMAIN feed}
                 = {m \in DOMAIN messages : messages[m].conversationId = c}
            /\ \A k \in DOMAIN feed : \A l \in DOMAIN feed :
                  /\ feed[k].id = feed[l].id => k = l
                  /\ k < l => feed[k].createdAt <= feed[l].createdAt
                  /\ (k < l /\ feed[k].createdAt = feed[l].createdAt)
                        => feed[k].id < feed[l].id
            /\ \A m \in DOMAIN messages : \A n \in DOMAIN messages :
                  ( /\ messages[m].conversationId = c
                    /\ messages[n].conversationId = c
                    /\ m < n )
                      => FeedPosition(feed, m) < FeedPosition(feed, n)

(* The second of two conversations lists two messages sent at the same     *)
(* time by different users, the first of them soft-deleted.                *)
C19_Witness ==
    /\ Len(conversations) = 2
    /\ Len(getMessages(2)) = 2
    /\ getMessages(2)[1].isDeleted
    /\ getMessages(2)[1].createdAt = getMessages(2)[2].createdAt
    /\ getMessages(2)[1].createdAt > conversations[2].createdAt
    /\ getMessages(2)[1].senderId # getMessages(2)[2].senderId

-----------------------------------------------------------------------------
(* Properties of calls on missing targets.                                 *)

(* The step completes a mutation whose target does not exist: markRead by  *)
(* a user without a membership in the conversation, a send into a          *)
(* conversation that does not exist, a softDelete or a toggle on a message *)
(* that does not exist.                                                    *)
TargetMissing ==
    /\ Completed
    /\ \/ /\ last'.op = "markAsRead"
          /\ ~IsMember(conversationMembers, last'.user, last'.conv)
       \/ last'.op = "sendMessage" /\ last'.conv \notin DOMAIN conversations
       \/ last'.op = "deleteMessage" /\ last'.msg \notin DOMAIN messages
       \/ last'.op = "toggleReaction" /\ last'.msg \notin DOMAIN messages

(* C21: every mutation that references a target that does not exist fails  *)
(* with an error and changes no table: it is neither a silent no-op nor a  *)
(* write.                                                                  *)
C21_MissingTargetFails ==
    [][TargetMissing => (~last'.ok /\ UNCHANGED tables)]_vars

-----------------------------------------------------------------------------
(* Properties of concurrent reactions.                                     *)

(* The reactions of user u that listForConversation shows on message m,    *)
(* given the feed of m's conversation.                                     *)
ShownReactions(feed, m, u) ==
    LET entry == feed[CHOOSE k \in DOMAIN feed : feed[k].id = m]
        rows == SelectSeq(entry.reactions, LAMBDA r : r.userId = u)
    IN  [i \in DOMAIN rows |-> rows[i].emoji]

(* No reader of the feed sees two reactions of one user on one message.    *)
NeverTwoShown ==
    \A m \in MessageIds, u \in ChatUsers :
        Len(ShownReactions(getMessages(messages[m].conversationId), m, u)) <= 1

(* No toggle in flight ran against a state with two reactions of its user  *)
(* on its message.                                                         *)
NeverTwoRead ==
    \A p \in Clients :
        pending[p].pc = "toggle"
          => Len(ToggleReadSet(pending[p].snapReactions, pending[p].msg,
                               pending[p].user)) <= 1

(* The step in which toggle(m,u,Y) replaces the reaction X of u on m takes *)
(* the feed from showing X alone to showing Y alone.                       *)
ReplaceIsOneStep ==
    \A m \in MessageIds, u \in ChatUsers :
        ( /\ Toggled
          /\ last'.msg = m
          /\ last'.user = u
          /\ Len(EmojisOf(reactions, m, u)) = 1
          /\ EmojisOf(reactions, m, u) # <<last'.emoji>> )
            => /\ ShownReactions(getMessages(messages[m].conversationId), m, u)
                    = EmojisOf(reactions, m, u)
               /\ ShownReactions(getMessages(messages[m].conversationId), m, u)'
                    = <<last'.emoji>>

(* C22: while toggle(m,u,Y) replaces u's reaction X on m with Y, no        *)
(* concurrent read of the feed and no concurrent toggle on the same (m,u)  *)
(* sees zero or two reaction rows for (m,u): the delete of the old row and *)
(* the insert of the new one are one step.                                 *)
C22_ReplaceIsAtomic ==
    /\ [](NeverTwoShown /\ NeverTwoRead)
    /\ [][ReplaceIsOneStep]_vars

(* A toggle whose handler read the reaction X of (m,u) is still in flight  *)
(* while the other client's toggle has replaced X with Y.                  *)
C22_Witness ==
    \E p \in Clients :
        /\ pending[p].pc = "toggle"
        /\ last.op = "toggleReaction"
        /\ last.ok
        /\ last.msg = pending[p].msg
        /\ last.user = pending[p].user
        /\ Len(ToggleReadSet(pending[p].snapReactions, last.msg, last.user)) = 1
        /\ ToggleReadSet(pending[p].snapReactions, last.msg, last.user)[1].emoji
              # last.emoji
        /\ EmojisOf(reactions, last.msg, last.user) = <<last.emoji>>

-----------------------------------------------------------------------------
(* Properties of concurrent typing.                                        *)

(* At most one typing row per (conversationId, userId).                    *)
OneTypingRow ==
    \A i \in DOMAIN typingIndicators, j \in DOMAIN typingIndicators :
        ( /\ typingIndicators[i].conversationId = typingIndicators[j].conversationId
          /\ typingIndicators[i].userId = typingIndicators[j].userId ) => i = j

(* A setTyping that completes while its user has a row in its conversation *)
(* inserts nothing: the table keeps its length, and of the row only        *)
(* updatedAt may change.                                                   *)
SetTypingRefreshes ==
    ( /\ Completed
      /\ last'.op = "setTyping"
      /\ TypingIxs(last'.user, last'.conv) # {} )
        => /\ last'.ok
           /\ Len(typingIndicators') = Len(typingIndicators)
           /\ \A i \in DOMAIN typingIndicators :
                 /\ typingIndicators'[i].conversationId = typingIndicators[i].conversationId
                 /\ typingIndicators'[i].userId = typingIndicators[i].userId
                 /\ typingIndicators'[i].updatedAt # typingIndicators[i].updatedAt
                       => i \in TypingIxs(last'.user, last'.conv)

(* C23: after any sequence and interleaving of setTyping, clearTyping and  *)
(* send calls there is at most one typing row per (conversationId,         *)
(* userId): setTyping on an existing row only refreshes updatedAt and      *)
(* never inserts a second row.                                             *)
C23_OneTypingRow ==
    /\ []OneTypingRow
    /\ [][SetTypingRefreshes]_vars

(* A setTyping whose lookup ran when its user had no row in the            *)
(* conversation is still in flight while the row, written at a later time  *)
(* by the other client's setTyping for the same user, exists next to the   *)
(* other user's row.                                                       *)
C23_Witness ==
    /\ last.op = "setTyping"
    /\ last.ok
    /\ Len(typingIndicators) = 2
    /\ \E i \in TypingIxs(last.user, last.conv) :
          /\ typingIndicators[i].updatedAt = now
          /\ now > 0
    /\ \E p \in Clients :
          /\ pending[p].pc = "typing"
          /\ pending[p].user = last.user
          /\ pending[p].conv = last.conv
          /\ TypingReadSet(pending[p].snapTyping, last.conv, last.user) = <<>>

-----------------------------------------------------------------------------
(* Properties of the online status.                                        *)

(* Every updateOnlineStatus call issued so far has been applied.           *)
AllStatusApplied ==
    \A p \in Clients : pending[p].pc = "session" => pending[p].calls = <<>>

(* User u has a session that is mounted and visible.                       *)
HasOpenSession(u) ==
    \E p \in Clients :
        pending[p].pc = "session" /\ pending[p].user = u /\ pending[p].view = "visible"

(* C24: for any interleaving of mount, visibility-change, beforeunload and *)
(* unmount events across the sessions of a user, once all issued           *)
(* updateOnlineStatus calls have been applied, isOnline is true if at      *)
(* least one of the user's sessions is still mounted and visible.          *)
C24_OnlineWhileOpen ==
    \A u \in DOMAIN users :
        (AllStatusApplied /\ HasOpenSession(u)) => users[u].isOnline

-----------------------------------------------------------------------------
(* Properties of direct conversations among groups.                        *)

(* The step is a getOrCreateDirect call that returns.                      *)
DirectReturned == Completed /\ last'.op = "getOrCreateDirectConversation" /\ last'.ok

(* The group conversations in which both a and b hold a membership.        *)
SharedGroups(a, b) ==
    {c \in DOMAIN conversations :
        /\ conversations[c].isGroup
        /\ MemberIxs(conversationMembers, a, c) # {}
        /\ MemberIxs(conversationMembers, b, c) # {}}

(* The conversation returned is not a group.                               *)
ReturnsDirect ==
    DirectReturned
        => /\ last'.ret \in DOMAIN conversations'
           /\ ~conversations'[last'.ret].isGroup

(* When the two users share no direct conversation the call creates one,   *)
(* whatever groups they share, and returns it.                             *)
CreatesWhenOnlyGroups ==
    (DirectReturned /\ DirectConvs(last'.user, last'.other) = {})
        => /\ Len(conversations') = Len(conversations) + 1
           /\ last'.ret = Len(conversations) + 1
           /\ last'.ret \notin SharedGroups(last'.user, last'.other)

(* C25: getOrCreateDirect(A,B) only ever returns a non-group conversation: *)
(* if A and B are both members of one or more groups but share no direct   *)
(* conversation, the call creates a new direct conversation and does not   *)
(* return any group's id.                                                  *)
C25_DirectNeverGroup == [][ReturnsDirect /\ CreatesWhenOnlyGroups]_vars

(* A call has just returned a direct conversation created after two groups *)
(* that both users are members of.                                         *)
C25_Witness ==
    /\ last.op = "getOrCreateDirectConversation"
    /\ last.ok
    /\ last.ret = 3
    /\ ~conversations[3].isGroup
    /\ SharedGroups(last.user, last.other) = {1, 2}

-----------------------------------------------------------------------------
(* Properties of the typing hook.                                          *)

(* The hook of client p issues setTyping, or clearTyping, in this step.    *)
IssuesSetTyping(p) ==
    Completed /\ last'.op = "setTyping" /\ pending'[p].pc = "hook"

IssuesClearTyping(p) ==
    Completed /\ last'.op = "clearTyping" /\ pending[p].pc = "hook"

(* A setTyping is issued no sooner than 500 ms after the one before it.    *)
SetTypingDebounced(p) ==
    (IssuesSetTyping(p) /\ pending[p].setAt # Never) => now - pending[p].setAt >= 500

(* A clearTyping issued by the timer comes exactly 2000 ms after the last  *)
(* keystroke, and is the first clearTyping since that keystroke.           *)
TimeoutClears(p) ==
    (IssuesClearTyping(p) /\ pending'[p].clearBy = "timer")
        => /\ pending[p].keyAt # Never
           /\ now = pending[p].keyAt + 2000
           /\ ~pending[p].cleared

(* A send issues clearTyping at once, before the message is sent, and      *)
(* leaves no timer pending.                                                *)
SendClears(p) ==
    /\ (pending[p].pc = "hook" /\ pending'[p].pc = "sending")
          => /\ IssuesClearTyping(p)
             /\ pending'[p].clearBy = "stop"
             /\ pending'[p].typingTimeoutRef = NoTimer
    /\ (Completed /\ last'.op = "sendMessage") => pending[p].pc = "sending"

(* Once more than 2000 ms have passed since the last keystroke a           *)
(* clearTyping has been issued since; a timer is pending only after a      *)
(* keystroke that no clearTyping has followed.                             *)
ClearedAfterInactivity(p) ==
    pending[p].pc \in {"hook", "sending"}
        => /\ (pending[p].keyAt # Never /\ now > pending[p].keyAt + 2000)
                 => pending[p].cleared
           /\ pending[p].typingTimeoutRef # NoTimer
                 => (~pending[p].cleared /\ pending[p].typingTimeoutRef = pending[p].keyAt + 2000)

(* C26: the typing hook issues setTyping at most once per 500 ms of        *)
(* keystrokes, and issues clearTyping once 2000 ms pass after the last     *)
(* keystroke without another keystroke, or immediately when a message is   *)
(* sent, in which case the pending timer is cancelled and fires no later   *)
(* clearTyping.                                                            *)
C26_TypingHookDebounce ==
    /\ []ClearedAfterInactivity(1)
    /\ [][SetTypingDebounced(1) /\ TimeoutClears(1) /\ SendClears(1)]_vars

(* 2000 ms after a send that cancelled a pending timer no clearTyping has  *)
(* been issued since, and the setTyping before the send was the second of  *)
(* the hook.                                                               *)
C26_Witness ==
    /\ pending[1].pc = "hook"
    /\ pending[1].clearBy = "stop"
    /\ pending[1].cleared
    /\ pending[1].keyAt # Never
    /\ pending[1].setAt >= 501
    /\ now >= pending[1].keyAt + 2000
    /\ last.op = "sendMessage"
    /\ last.ok

-----------------------------------------------------------------------------
(* Properties of sending with retry.                                       *)

(* While no attempt is in flight: after a failed attempt its body is kept  *)
(* and the error is shown; otherwise no body is kept and no error is       *)
(* shown.                                                                  *)
FailedBodyKept(p) ==
    pending[p].pc = "input"
        => IF pending[p].failed # <<>>
           THEN pending[p].lastFailedMessage = pending[p].failed /\ pending[p].sendError
           ELSE pending[p].lastFailedMessage = <<>> /\ ~pending[p].sendError

(* An attempt starts only by handleSend or handleRetry, never in the step  *)
(* in which an attempt fails; one started by Retry follows a failed        *)
(* attempt and carries exactly its body.                                   *)
RetryResubmits(p) ==
    (pending[p].pc # "awaiting" /\ pending'[p].pc = "awaiting")
        => /\ pending[p].pc = "input"
           /\ pending'[p].via \in {"handleSend", "handleRetry"}
           /\ pending'[p].via = "handleRetry"
                 => /\ pending[p].failed # <<>>
                    /\ pending'[p].body = pending[p].failed

(* The mutation is called with the body of the attempt, once per attempt.  *)
OneCallPerAttempt(p) ==
    (Completed /\ last'.op = "sendMessage")
        => /\ pending[p].pc = "awaiting"
           /\ pending'[p].pc = "input"
           /\ last'.body = pending[p].body

(* C27: when a send fails no automatic retry happens: the failed body is   *)
(* kept, an error with a Retry affordance is shown, and Retry re-submits    *)
(* exactly the body of the failed attempt; after a send or a retry         *)
(* succeeds the remembered body is cleared, so that a later Retry submits  *)
(* nothing.                                                                *)
C27_ManualRetry ==
    /\ []FailedBodyKept(1)
    /\ [][RetryResubmits(1) /\ OneCallPerAttempt(1)]_vars

(* A retry of a failed body has just succeeded while the input holds       *)
(* another text: the stored message has the failed body and no body is     *)
(* remembered.                                                             *)
C27_Witness ==
    /\ pending[1].pc = "input"
    /\ pending[1].via = "handleRetry"
    /\ last.op = "sendMessage"
    /\ last.ok
    /\ last.body = <<"b">>
    /\ messages[last.ret].body = <<"b">>
    /\ pending[1].message = <<"a">>
    /\ pending[1].lastFailedMessage = <<>>
    /\ ~pending[1].sendError

-----------------------------------------------------------------------------
(* Properties of the user profile.                                         *)

(* The step is an upsertUser call for an externalAuthId that has a row.    *)
UpsertOfExisting ==
    Completed /\ last'.op = "upsertUser" /\ UserIxs(users, last'.clerkId) # {}

(* upsertUser for an existing account inserts no row, returns the row's    *)
(* id, sets its name, email and avatarUrl to the arguments and leaves its  *)
(* other fields, every other row and every other table as they were.       *)
UpsertOnlyRefreshes ==
    UpsertOfExisting
        => /\ last'.ok
           /\ Len(users') = Len(users)
           /\ UserIxs(users, last'.clerkId) = {last'.ret}
           /\ \A i \in DOMAIN users :
                 /\ users'[i].clerkId = users[i].clerkId
                 /\ users'[i].isOnline = users[i].isOnline
                 /\ users'[i].lastSeen = users[i].lastSeen
                 /\ i # last'.ret => users'[i] = users[i]
           /\ users'[last'.ret].name = last'.name
           /\ users'[last'.ret].email = last'.email
           /\ users'[last'.ret].avatarUrl = last'.avatarUrl
           /\ UNCHANGED <<conversations, conversationMembers, messages, reactions,
                          typingIndicators>>

(* A call that repeats the call before it, with the same data, changes no  *)
(* table.                                                                  *)
UpsertTwiceIsOnce ==
    ( /\ last.op = "upsertUser"
      /\ last.ok
      /\ Completed
      /\ last'.op = "upsertUser"
      /\ last'.clerkId = last.clerkId
      /\ last'.name = last.name
      /\ last'.email = last.email
      /\ last'.avatarUrl = last.avatarUrl )
        => (UNCHANGED tables /\ last'.ret = last.ret)

(* A call for an externalAuthId without a row inserts the user, offline.   *)
UpsertCreatesOffline ==
    (Completed /\ last'.op = "upsertUser" /\ UserIxs(users, last'.clerkId) = {})
        => /\ Len(users') = Len(users) + 1
           /\ last'.ret = Len(users) + 1
           /\ users'[last'.ret].clerkId = last'.clerkId
           /\ users'[last'.ret].name = last'.name
           /\ ~users'[last'.ret].isOnline
           /\ \A i \in DOMAIN users : users'[i] = users[i]

(* C28: upsertUser for an externalAuthId that already exists only          *)
(* refreshes name, email and avatarUrl: it inserts no row and leaves the    *)
(* user's id, isOnline and lastSeen unchanged, so that calling it twice    *)
(* with the same data gives the same state as calling it once; on creation *)
(* the new user has isOnline = false.                                      *)
C28_UpsertOnlyRefreshes ==
    [][UpsertOnlyRefreshes /\ UpsertTwiceIsOnce /\ UpsertCreatesOffline]_vars

(* An upsert has just renamed, at a later time, the first of two users,    *)
(* who is online and was last seen after the account was created.          *)
C28_Witness ==
    /\ last.op = "upsertUser"
    /\ last.ok
    /\ last.ret = 1
    /\ Len(users) = 2
    /\ users[1].name = "Anna"
    /\ users[1].isOnline
    /\ users[1].lastSeen > 0
    /\ now > users[1].lastSeen

-----------------------------------------------------------------------------
(* Properties of the unread count over time.                               *)

(* The step is a markRead(u, c) call.                                      *)
MarksRead(u, c) ==
    Completed /\ last'.op = "markAsRead" /\ last'.user = u /\ last'.conv = c

(* C29: for a member U of conversation C, the unreadCount that             *)
(* listForUser(U) reports for C never decreases across a step other than   *)
(* markRead(U,C): sends, soft deletes, reaction toggles, typing updates    *)
(* and other users' markRead calls leave it unchanged or increase it.      *)
C29_UnreadNeverDrops ==
    [][\A i \in DOMAIN conversationMembers :
          ~MarksRead(conversationMembers[i].userId, conversationMembers[i].conversationId)
              => UnreadCount(conversationMembers'[i], messages')
                    >= UnreadCount(conversationMembers[i], messages)]_vars

(* The sender has just marked the conversation read while the other        *)
(* member's count for it is still 1, for a message that is soft-deleted    *)
(* and carries a reaction.                                                 *)
C29_Witness ==
    /\ last.op = "markAsRead"
    /\ last.ok
    /\ \E m \in MessageIds :
          /\ messages[m].conversationId = last.conv
          /\ messages[m].senderId = last.user
          /\ messages[m].isDeleted
          /\ reactions # <<>>
          /\ \E u \in ChatUsers \ {last.user} :
                /\ IsMember(conversationMembers, u, last.conv)
                /\ UnreadReported(conversationMembers, messages, u, last.conv) = {1}

-----------------------------------------------------------------------------
(* Properties of reopening a direct conversation.                          *)

(* The step is a getOrCreateDirect(a, b) call made while a direct          *)
(* conversation of a and b exists.                                         *)
ReopensDirect(a, b) ==
    /\ Completed
    /\ last'.op = "getOrCreateDirectConversation"
    /\ last'.user = a
    /\ last'.other = b
    /\ DirectConvs(a, b) # {}

(* C30: getOrCreateDirect(A,B) called when a direct conversation between A *)
(* and B already exists returns that conversation's id and leaves every    *)
(* table unchanged: no Conversation or Membership is inserted and no       *)
(* Membership's lastReadAt is modified.                                    *)
C30_ExistingDirectUntouched ==
    [][\A a, b \in ChatUsers :
          ReopensDirect(a, b)
              => /\ last'.ok
                 /\ last'.ret \in DirectConvs(a, b)
                 /\ UNCHANGED tables]_vars

(* A call has just returned the existing direct conversation, which holds  *)
(* a message and a membership marked read after the conversation was       *)
(* created and before the call.                                            *)
C30_Witness ==
    /\ last.op = "getOrCreateDirectConversation"
    /\ last.ok
    /\ last.ret = 1
    /\ Len(conversations) = 1
    /\ ~conversations[1].isGroup
    /\ Len(conversationMembers) = 2
    /\ messages # <<>>
    /\ \E i \in DOMAIN conversationMembers :
          /\ conversationMembers[i].lastReadAt > conversations[1].createdAt
          /\ conversationMembers[i].lastReadAt < now
=============================================================================
